---------------------------- MODULE Spec2Model ----------------------------
(***************************************************************************)
(* claudectl: the workspace lifecycle manager (git worktrees kept under    *)
(* <home>/.claude/workspaces/<repo>/<sanitized-branch>).                   *)
(*                                                                         *)
(* The program holds no state of its own: every call shells out to git and *)
(* reads the filesystem.  The state of the model is therefore the state of *)
(* the repository (its worktrees, its local branch heads) and of the       *)
(* directories on disk, plus a record of the last manager call and what it *)
(* returned or raised.  Strings are TLA+ strings; a path is the string     *)
(* str(Path) gives.                                                        *)
(***************************************************************************)
EXTENDS Integers, Sequences, FiniteSets, TLC

(***************************************************************************)
(* String helpers (Python's str operations used by the code).              *)
(***************************************************************************)
StartsWith(s, p) == Len(s) >= Len(p) /\ SubSeq(s, 1, Len(p)) = p

Contains(s, sub) ==
    \E i \in 1..(Len(s) + 1 - Len(sub)) : SubSeq(s, i, i + Len(sub) - 1) = sub

\* s[n:]
DropPrefix(s, n) == IF n >= Len(s) THEN "" ELSE SubSeq(s, n + 1, Len(s))

\* Faulty variant that C19 must reject: the commit id not truncated
TakeAll(s, n) == s

\* s[:n]
TakePrefix(s, n) == IF n >= Len(s) THEN s ELSE SubSeq(s, 1, n)

\* The index of the first space of s at or after i, 0 when there is none
RECURSIVE FirstSpace(_, _)
FirstSpace(s, i) ==
    IF i > Len(s) THEN 0
    ELSE IF SubSeq(s, i, i) = " " THEN i
    ELSE FirstSpace(s, i + 1)

\* line.split(" ", 1)[1] for a line that holds a space
AfterFirstSpace(s) == DropPrefix(s, FirstSpace(s, 1))

RECURSIVE JoinComma(_)
JoinComma(parts) ==
    IF Len(parts) = 0 THEN ""
    ELSE IF Len(parts) = 1 THEN parts[1]
    ELSE parts[1] \o ", " \o JoinComma(Tail(parts))

Digits == "0123456789"

\* str(n) for the small counts the model reaches
NumStr(n) == IF n < 10 THEN SubSeq(Digits, n + 1, n + 1)
             ELSE SubSeq(Digits, (n \div 10) + 1, (n \div 10) + 1)
                  \o SubSeq(Digits, (n % 10) + 1, (n % 10) + 1)

(***************************************************************************)
(* sanitize_workspace_name: three re.sub passes and a strip.               *)
(***************************************************************************)
SlashChars == {"/", "\\"}

UnderscoreSpaceChars == {"_", " ", "\t", "\n", "\r", "\f"}

SafeChars ==
    {"a","b","c","d","e","f","g","h","i","j","k","l","m",
     "n","o","p","q","r","s","t","u","v","w","x","y","z",
     "A","B","C","D","E","F","G","H","I","J","K","L","M",
     "N","O","P","Q","R","S","T","U","V","W","X","Y","Z",
     "0","1","2","3","4","5","6","7","8","9","-","."}

RECURSIVE DropWhileIn(_, _)
DropWhileIn(s, cls) ==
    IF s = "" THEN ""
    ELSE IF Head(s) \in cls THEN DropWhileIn(Tail(s), cls)
    ELSE s

\* re.sub(r"[cls]+", rep, s): every maximal run of cls becomes one rep
RECURSIVE ReplaceRuns(_, _, _)
ReplaceRuns(s, cls, rep) ==
    IF s = "" THEN ""
    ELSE IF Head(s) \in cls THEN rep \o ReplaceRuns(DropWhileIn(s, cls), cls, rep)
    ELSE Head(s) \o ReplaceRuns(Tail(s), cls, rep)

\* re.sub(r"[^a-zA-Z0-9\-.]", "", s)
RECURSIVE RemoveUnsafe(_)
RemoveUnsafe(s) ==
    IF s = "" THEN ""
    ELSE IF Head(s) \in SafeChars THEN Head(s) \o RemoveUnsafe(Tail(s))
    ELSE RemoveUnsafe(Tail(s))

RECURSIVE RStrip(_, _)
RStrip(s, c) ==
    IF s = "" THEN ""
    ELSE IF SubSeq(s, Len(s), Len(s)) = c THEN RStrip(SubSeq(s, 1, Len(s) - 1), c)
    ELSE s

\* Faulty variant that C12 must reject: the hyphens at the ends kept
KeepHyphens(s) == s

\* s.strip("-")
StripHyphens(s) == RStrip(DropWhileIn(s, {"-"}), "-")

sanitize_workspace_name(branch_name) ==
    StripHyphens(
        RemoveUnsafe(
            ReplaceRuns(ReplaceRuns(branch_name, SlashChars, "-"),
                        UnderscoreSpaceChars, "-")))

(***************************************************************************)
(* Paths (pathlib on POSIX).                                               *)
(***************************************************************************)
\* Path(base) / name, for a name of one component
PathJoin(base, name) ==
    IF name = "" \/ name = "." THEN base ELSE base \o "/" \o name

RECURSIVE LastSlash(_, _)
LastSlash(p, i) ==
    IF i = 0 THEN 0
    ELSE IF SubSeq(p, i, i) = "/" THEN i
    ELSE LastSlash(p, i - 1)

\* Path(p).name
PathName(p) == DropPrefix(p, LastSlash(p, Len(p)))

\* str(Path(p).parent)
PathParent(p) ==
    LET k == LastSlash(p, Len(p))
    IN  IF k = 0 THEN "." ELSE IF k = 1 THEN "/" ELSE SubSeq(p, 1, k - 1)

\* d lies strictly below dir
IsUnder(d, dir) == StartsWith(d, dir \o "/")

(***************************************************************************)
(* The world the model runs in.                                            *)
(***************************************************************************)
\* Path.home()
Home == "/home/u"

\* get_repo_root(): the parent of the shared .git directory
RepoRoot == "/home/u/proj"

\* The branch names the calls and the user draw from.  "feat/x" and
\* "feat_x" sanitize to the same directory name.
BranchNames == {"main", "dev", "feat/x", "feat_x"}

\* branch: str | None.  "~" cannot occur in a git ref name.
None == "~None~"

\* Refs of the origin remote (repo.remotes.origin.refs)
OriginRefs == {"dev"}

\* Places where the user adds worktrees with plain git: one outside any
\* .claude directory, one below another user's .claude/workspaces.
ExternalPaths == {"/tmp/wt", "/srv/.claude/workspaces/proj/dev"}

\* Commit ids (12 hex digits stand for git's 40)
InitialCommit == "a1b2c3d4e5f6"

LaterCommit == "a1b2c3d40000"

\* The tracked file the user edits and the new file the user creates
TrackedFile == "README.md"

NewFile == "notes.txt"

VARIABLES
    worktrees,   \* git's worktree list, main first: records
                 \*   [path, branch, head, staged, unstaged, untracked]
    heads,       \* local branch name -> commit id, None where there is no branch
    dirs,        \* the directories that exist on disk
    last,        \* the last manager call: its arguments, the state before,
                 \* what git was asked, and what came back
    porcelain,   \* the lines of a worktree listing handed to the parser
    files        \* the regular files on disk that the context copy reads and
                 \* writes: path -> content

vars == <<worktrees, heads, dirs, last, porcelain, files>>

\* The repository as one value, handed through the manager's operations
Repo == [worktrees |-> worktrees, heads |-> heads, dirs |-> dirs]


(***************************************************************************)
(* git, as the commands the code runs behave.                              *)
(***************************************************************************)
\* The indices of the worktrees that check out branch b
CheckedOutAt(st, b) == {i \in 1..Len(st.worktrees) : st.worktrees[i].branch = b}

\* The index of the worktree at path p, 0 when there is none
WorktreeIndexAt(st, p) ==
    LET hit == {i \in 1..Len(st.worktrees) : st.worktrees[i].path = p}
    IN  IF hit = {} THEN 0 ELSE CHOOSE i \in hit : TRUE

\* One group of `git worktree list --porcelain`, blank line included
PorcelainGroup(w) ==
    << "worktree " \o w.path,
       "HEAD " \o w.head,
       IF w.branch = None THEN "detached" ELSE "branch refs/heads/" \o w.branch,
       "" >>

\* result.stdout.splitlines() of `git worktree list --porcelain`
RECURSIVE PorcelainLines(_)
PorcelainLines(wts) ==
    IF Len(wts) = 0 THEN <<>>
    ELSE PorcelainGroup(Head(wts)) \o PorcelainLines(Tail(wts))

GitWorktreeListPorcelain(st) == PorcelainLines(st.worktrees)

\* What HEAD resolves to in the process's working directory, the main worktree
HeadCommit(st) == st.worktrees[1].head

\* The commit a <commit-ish> names, None when it names nothing
ResolveCommitish(st, ref) ==
    IF ref = "HEAD" THEN HeadCommit(st)
    ELSE IF ref \in DOMAIN st.heads THEN st.heads[ref]
    ELSE None

NewWorktree(path, branch, head) ==
    [path |-> path, branch |-> branch, head |-> head,
     staged |-> {}, unstaged |-> {}, untracked |-> {}]

\* What git writes to stderr when a failure from outside the model (a lock,
\* a full disk) stops it
OutsideFailure == "fatal: Unable to create index.lock"

\* `git worktree add <path> <branch>`, or with newBranch
\* `git worktree add -b <branch> <path> <base>`.  gitOk = FALSE is a failure
\* from outside the model.  git refuses a path that exists or that a
\* worktree is registered at.  A refusal leaves its reason in stderr.
GitWorktreeAdd(st, path, branch, newBranch, base, gitOk) ==
    LET start == IF newBranch THEN ResolveCommitish(st, base)
                 ELSE IF st.heads[branch] # None THEN st.heads[branch]
                 ELSE IF branch \in OriginRefs THEN InitialCommit
                 ELSE None
        refused == \/ ~gitOk
                   \/ path \in st.dirs
                   \/ WorktreeIndexAt(st, path) # 0
                   \/ start = None
                   \/ newBranch /\ st.heads[branch] # None
                   \/ ~newBranch /\ CheckedOutAt(st, branch) # {}
        stderr == IF ~gitOk THEN OutsideFailure
                  ELSE IF path \in st.dirs
                  THEN "fatal: '" \o path \o "' already exists"
                  ELSE IF WorktreeIndexAt(st, path) # 0
                  THEN "fatal: '" \o path \o "' is a missing but already registered worktree"
                  ELSE IF start = None
                  THEN "fatal: invalid reference: " \o (IF newBranch THEN base ELSE branch)
                  ELSE IF newBranch
                  THEN "fatal: a branch named '" \o branch \o "' already exists"
                  ELSE "fatal: '" \o branch \o "' is already checked out"
    IN  IF refused THEN [ok |-> FALSE, st |-> st, stderr |-> stderr]
        ELSE [ok |-> TRUE, stderr |-> "",
              st |-> [worktrees |-> Append(st.worktrees, NewWorktree(path, branch, start)),
                      heads |-> [st.heads EXCEPT ![branch] = start],
                      dirs |-> st.dirs \cup {path}]]

WorktreeDirty(w) == w.staged # {} \/ w.unstaged # {} \/ w.untracked # {}

RemoveAt(seq, i) == SubSeq(seq, 1, i - 1) \o SubSeq(seq, i + 1, Len(seq))

\* `git worktree remove [--force] <path>`: git refuses the main working tree,
\* and an unclean one unless forced.
GitWorktreeRemove(st, path, force, gitOk) ==
    LET i == WorktreeIndexAt(st, path)
        refused == \/ ~gitOk
                   \/ i = 0
                   \/ i = 1
                   \/ i > 1 /\ ~force /\ WorktreeDirty(st.worktrees[i])
        stderr == IF ~gitOk THEN OutsideFailure
                  ELSE IF i = 0 THEN "fatal: '" \o path \o "' is not a working tree"
                  ELSE IF i = 1 THEN "fatal: '" \o path \o "' is a main working tree"
                  ELSE "fatal: '" \o path \o "' contains modified or untracked "
                           \o "files, use --force to delete it"
    IN  IF refused THEN [ok |-> FALSE, st |-> st, stderr |-> stderr]
        ELSE [ok |-> TRUE, stderr |-> "",
              st |-> [worktrees |-> RemoveAt(st.worktrees, i),
                      heads |-> st.heads,
                      dirs |-> {d \in st.dirs : d # path /\ ~IsUnder(d, path)}]]

\* `git -C <path> diff <target>...HEAD`: the changes of the worktree's HEAD
\* since its merge base with target.  It fails when the directory is not
\* there or target names no commit.
GitDiff(st, path, target_branch, gitOk) ==
    LET i == WorktreeIndexAt(st, path)
        target == IF target_branch \in DOMAIN st.heads THEN st.heads[target_branch]
                  ELSE None
        stderr == IF ~gitOk THEN OutsideFailure
                  ELSE IF path \notin st.dirs \/ i = 0
                  THEN "fatal: cannot change to '" \o path \o "': No such file or directory"
                  ELSE IF target = None
                  THEN "fatal: ambiguous argument '" \o target_branch
                           \o "...HEAD': unknown revision or path not in the working tree."
                  ELSE ""
    IN  IF stderr # "" THEN [ok |-> FALSE, stdout |-> "", stderr |-> stderr]
        ELSE [ok |-> TRUE, stderr |-> "",
              stdout |-> IF st.worktrees[i].head = LaterCommit /\ target = InitialCommit
                         THEN "diff --git a/README.md b/README.md"
                         ELSE ""]

\* Faulty variant that C18 must reject: only the local heads looked at
branch_exists_locally(st, branch_name) == st.heads[branch_name] # None

\* branch_exists: a local head, or a ref of origin
branch_exists(st, branch_name) ==
    st.heads[branch_name] # None \/ branch_name \in OriginRefs

\* get_current_branch: None when HEAD is detached
get_current_branch(st) == st.worktrees[1].branch

\* is_worktree_clean: `repo = Repo(worktree_path)` opens the repository of an
\* existing directory; for a path that does not exist GitPython raises
\* NoSuchPathError, which the `except (InvalidGitRepositoryError,
\* GitCommandError)` of is_worktree_clean does not catch
RepoOpens(st, worktree_path) == worktree_path \in st.dirs

\* Faulty variant that C6 must reject: the test of the untracked files inverted
HasNoUntracked(w) == w.untracked = {}

\* is_worktree_clean: `if repo.untracked_files:`
HasUntracked(w) == w.untracked # {}

\* is_worktree_clean: (is_clean, status_message)
is_worktree_clean(st, worktree_path) ==
    LET i == WorktreeIndexAt(st, worktree_path)
    IN  IF i = 0 THEN <<FALSE, "Failed to check status">>
        ELSE
          LET w == st.worktrees[i]
              modified_files == Cardinality(w.unstaged) + Cardinality(w.staged)
              untracked_files == Cardinality(w.untracked)
              parts == (IF modified_files # 0
                        THEN <<NumStr(modified_files) \o " modified">> ELSE <<>>)
                       \o (IF untracked_files # 0
                           THEN <<NumStr(untracked_files) \o " untracked">> ELSE <<>>)
          IN  IF w.unstaged # {} \/ w.staged # {} THEN <<FALSE, JoinComma(parts)>>
              ELSE IF HasUntracked(w)
                   THEN <<FALSE, NumStr(untracked_files) \o " untracked">>
              ELSE <<TRUE, "Clean">>

(***************************************************************************)
(* Workspace entity and discovery (core/workspaces.py).                    *)
(***************************************************************************)
\* Workspace.is_managed
is_managed(w) == Contains(w.path, ".claude/workspaces")

\* Workspace.is_clean
is_clean(st, w) == is_worktree_clean(st, w.path)

\* The dict `current` of parse_worktree_list: its keys and their values
EmptyCurrent == [keys |-> {}, path |-> "", commit |-> "", branch |-> None]

\* Faulty variant that C10 must reject: is_main taken from the second entry (len(worktrees) == 1)
MakeWorkspaceOffByOne(current, n) ==
    [path |-> IF "path" \in current.keys THEN current.path ELSE ".",
     branch |-> IF "branch" \in current.keys THEN current.branch ELSE None,
     commit |-> IF "commit" \in current.keys THEN current.commit ELSE "",
     is_main |-> (n = 1),
     repo_root |-> RepoRoot]

\* Workspace(path=current.get("path", Path()), branch=current.get("branch"),
\*           commit=current.get("commit", ""), is_main=len(worktrees) == 0, ...)
MakeWorkspace(current, n) ==
    [path |-> IF "path" \in current.keys THEN current.path ELSE ".",
     branch |-> IF "branch" \in current.keys THEN current.branch ELSE None,
     commit |-> IF "commit" \in current.keys THEN current.commit ELSE "",
     is_main |-> (n = 0),
     repo_root |-> RepoRoot]

RECURSIVE ParseLines(_, _, _)
ParseLines(lines, acc, current) ==
    IF Len(lines) = 0
    THEN IF current.keys # {} THEN Append(acc, MakeWorkspace(current, Len(acc)))
         ELSE acc
    ELSE
      LET line == Head(lines)
          rest == Tail(lines)
      IN  IF StartsWith(line, "worktree ")
          THEN ParseLines(rest, acc,
                   [current EXCEPT !.keys = @ \cup {"path"},
                                   !.path = AfterFirstSpace(line)])
          ELSE IF StartsWith(line, "HEAD ")
          THEN ParseLines(rest, acc,
                   [current EXCEPT !.keys = @ \cup {"commit"},
                                   !.commit = TakePrefix(AfterFirstSpace(line), 8)])
          ELSE IF StartsWith(line, "branch ")
          THEN LET ref == AfterFirstSpace(line)
               IN  ParseLines(rest, acc,
                       [current EXCEPT
                           !.keys = @ \cup {"branch"},
                           !.branch = IF StartsWith(ref, "refs/heads/")
                                      THEN DropPrefix(ref, Len("refs/heads/"))
                                      ELSE ref])
          ELSE IF line = "" /\ current.keys # {}
          THEN ParseLines(rest, Append(acc, MakeWorkspace(current, Len(acc))),
                          EmptyCurrent)
          ELSE ParseLines(rest, acc, current)

parse_worktree_list(lines) == ParseLines(lines, <<>>, EmptyCurrent)

\* Faulty variant that C11 must reject: the listing parsed whatever git's exit code
discover_workspaces_unguarded(st, listOk) ==
    parse_worktree_list(GitWorktreeListPorcelain(st))

\* discover_workspaces: [] when `git worktree list` exits with a failure
discover_workspaces(st, listOk) ==
    IF listOk THEN parse_worktree_list(GitWorktreeListPorcelain(st)) ELSE <<>>

\* find_workspace_by_branch returns None
NoWorkspace == [path |-> None, branch |-> None, commit |-> "",
                is_main |-> FALSE, repo_root |-> None]

RECURSIVE FirstWithBranch(_, _)
FirstWithBranch(workspaces, branch) ==
    IF Len(workspaces) = 0 THEN NoWorkspace
    ELSE IF Head(workspaces).branch = branch THEN Head(workspaces)
    ELSE FirstWithBranch(Tail(workspaces), branch)

\* Faulty variant that C4 must reject: only managed workspaces are searched
find_managed_workspace_by_branch(st, branch, listOk) ==
    FirstWithBranch(SelectSeq(discover_workspaces(st, listOk), is_managed), branch)

find_workspace_by_branch(st, branch, listOk) ==
    FirstWithBranch(discover_workspaces(st, listOk), branch)

\* Faulty variant that C5 must reject: the branch name used as it is
get_workspace_path_unsanitized(branch_name) ==
    PathJoin(
        PathJoin(PathJoin(PathJoin(Home, ".claude"), "workspaces"), PathName(RepoRoot)),
        branch_name)

\* get_workspace_path
get_workspace_path_of(branch_name) ==
    PathJoin(
        PathJoin(PathJoin(PathJoin(Home, ".claude"), "workspaces"), PathName(RepoRoot)),
        sanitize_workspace_name(branch_name))

\* get_workspace_path over the branch names of the model, computed once
WorkspacePaths == [b \in BranchNames |-> get_workspace_path_of(b)]

get_workspace_path(branch_name) == WorkspacePaths[branch_name]

(***************************************************************************)
(* WorkspaceManager (operations/workspace_ops.py).  Every operation takes  *)
(* the repository st and the behaviour of git during the call,             *)
(*   env = [listOk |-> `git worktree list` exits 0,                        *)
(*          fail   |-> the paths for which git worktree add/remove, or the *)
(*                     rmdir of the directory, fails for a reason outside  *)
(*                     the model],                                         *)
(* and gives [exc, msg, ret, st, git]: the exception raised (None when it  *)
(* returns), its message, the value returned, the repository afterwards    *)
(* and the git worktree add/remove commands it ran.                        *)
(***************************************************************************)
Raise(exc, msg, st, git) == [exc |-> exc, msg |-> msg, ret |-> None, st |-> st, git |-> git]

Return(ret, st, git) == [exc |-> None, msg |-> "", ret |-> ret, st |-> st, git |-> git]

\* WorkspaceManager.list_workspaces
list_workspaces(st, managed_only, listOk) ==
    LET workspaces == discover_workspaces(st, listOk)
    IN  IF managed_only
        THEN SelectSeq(workspaces, LAMBDA w : is_managed(w) /\ ~w.is_main)
        ELSE workspaces

\* Faulty variant that C7 must reject: the lookup result returned without the test for None
get_workspace_unchecked(st, branch, listOk) ==
    Return(find_workspace_by_branch(st, branch, listOk), st, <<>>)

\* WorkspaceManager.get_workspace
get_workspace(st, branch, listOk) ==
    LET workspace == find_workspace_by_branch(st, branch, listOk)
    IN  IF workspace = NoWorkspace
        THEN Raise("WorkspaceNotFoundError",
                   "No workspace found for branch: " \o branch, st, <<>>)
        ELSE Return(workspace, st, <<>>)

\* Faulty variant that C3 and C25 must reject: the existence check of the target path dropped
PathTakenNever(st, workspace_path) == FALSE

\* create_workspace: workspace_path.exists()
PathTaken(st, workspace_path) == workspace_path \in st.dirs

\* Faulty variant that C2 must reject: the branch-in-use check dropped
BranchTakenNever(st, branch, listOk) == FALSE

\* create_workspace: `existing = find_workspace_by_branch(...)`, `if existing:`
BranchTaken(st, branch, listOk) ==
    find_workspace_by_branch(st, branch, listOk) # NoWorkspace

\* Faulty variant that C16 must reject: the parent directory made before the
\* two checks
create_workspace_mkdir_first(st, branch, base_branch, env) ==
    LET workspace_path == get_workspace_path(branch)
        st1 == [st EXCEPT !.dirs = @ \cup {PathParent(workspace_path)}]
        existing == find_workspace_by_branch(st1, branch, env.listOk)
    IN  IF PathTaken(st1, workspace_path)
        THEN Raise("WorkspaceExistsError",
                   "Workspace already exists: " \o workspace_path, st1, <<>>)
        ELSE IF BranchTaken(st1, branch, env.listOk)
        THEN Raise("BranchInUseError",
                   "Branch '" \o branch \o "' is already checked out at: "
                       \o existing.path, st1, <<>>)
        ELSE
          LET newBranch == ~branch_exists(st1, branch)
              base == IF newBranch
                      THEN IF base_branch # None /\ base_branch # "" THEN base_branch
                           ELSE IF get_current_branch(st1) # None
                                THEN get_current_branch(st1)
                           ELSE "HEAD"
                      ELSE None
              cmd == [cmd |-> "add", path |-> workspace_path, branch |-> branch,
                      newBranch |-> newBranch, base |-> base, force |-> FALSE]
              add == GitWorktreeAdd(st1, workspace_path, branch, newBranch, base,
                                    workspace_path \notin env.fail)
          IN  IF ~add.ok
              THEN Raise("WorkspaceError", "Failed to create worktree: " \o add.stderr,
                         st1, <<cmd>>)
              ELSE
                LET workspace == find_workspace_by_branch(add.st, branch, env.listOk)
                IN  IF workspace = NoWorkspace
                    THEN Raise("WorkspaceError",
                               "Workspace created but could not be found",
                               add.st, <<cmd>>)
                    ELSE Return(workspace, add.st, <<cmd>>)

\* WorkspaceManager.create_workspace
create_workspace(st, branch, base_branch, env) ==
    LET workspace_path == get_workspace_path(branch)
        existing == find_workspace_by_branch(st, branch, env.listOk)
    IN  IF PathTaken(st, workspace_path)
        THEN Raise("WorkspaceExistsError",
                   "Workspace already exists: " \o workspace_path, st, <<>>)
        ELSE IF BranchTaken(st, branch, env.listOk)
        THEN Raise("BranchInUseError",
                   "Branch '" \o branch \o "' is already checked out at: "
                       \o existing.path, st, <<>>)
        ELSE
          LET \* workspace_path.parent.mkdir(parents=True, exist_ok=True)
              st1 == [st EXCEPT !.dirs = @ \cup {PathParent(workspace_path)}]
              newBranch == ~branch_exists(st1, branch)
              base == IF newBranch
                      THEN IF base_branch # None /\ base_branch # "" THEN base_branch
                           ELSE IF get_current_branch(st1) # None
                                THEN get_current_branch(st1)
                           ELSE "HEAD"
                      ELSE None
              cmd == [cmd |-> "add", path |-> workspace_path, branch |-> branch,
                      newBranch |-> newBranch, base |-> base, force |-> FALSE]
              add == GitWorktreeAdd(st1, workspace_path, branch, newBranch, base,
                                    workspace_path \notin env.fail)
          IN  IF ~add.ok
              THEN Raise("WorkspaceError", "Failed to create worktree: " \o add.stderr,
                         st1, <<cmd>>)
              ELSE
                LET workspace == find_workspace_by_branch(add.st, branch, env.listOk)
                IN  IF workspace = NoWorkspace
                    THEN Raise("WorkspaceError",
                               "Workspace created but could not be found",
                               add.st, <<cmd>>)
                    ELSE Return(workspace, add.st, <<cmd>>)

\* Faulty variant that C1 must reject: the force test inverted
DirtyRefusedWhenForced(st, workspace, force) == force /\ ~is_clean(st, workspace)[1]

\* delete_workspace: `if not force:` ... `if not is_clean: raise`
DirtyRefused(st, workspace, force) == ~force /\ ~is_clean(st, workspace)[1]

\* Faulty variant that C24 must reject: the test for emptiness dropped
ParentExists(st, parent) == parent \in st.dirs

\* delete_workspace: `parent.exists() and not any(parent.iterdir())`
ParentEmpty(st, parent) ==
    parent \in st.dirs /\ \A d \in st.dirs : ~IsUnder(d, parent)

\* delete_workspace: `parent.rmdir()` inside `try: ... except OSError: pass`;
\* an rmdir that fails (permission denied) leaves the directory
ParentRmdir(st, parent, rmdirOk) ==
    IF rmdirOk THEN [st EXCEPT !.dirs = @ \ {parent}] ELSE st

\* Faulty variant that C28 must reject: --force passed to git whatever the
\* caller asked
RemoveForcedAlways(force) == TRUE

\* delete_workspace: `if force: cmd.append("--force")`
RemoveForced(force) == force

\* delete_workspace up to its cleanliness check: the workspace found, or the
\* exception raised
delete_workspace_check(st, branch, force, env) ==
    LET got == get_workspace(st, branch, env.listOk)
        workspace == got.ret
    IN  IF got.exc # None THEN got
        ELSE IF ~force /\ ~RepoOpens(st, workspace.path)
        THEN Raise("NoSuchPathError", workspace.path, st, <<>>)
        ELSE IF DirtyRefused(st, workspace, force)
        THEN Raise("WorkspaceError",
                   "Workspace has uncommitted changes (" \o is_clean(st, workspace)[2]
                       \o "). Use --force to remove anyway.", st, <<>>)
        ELSE Return(workspace, st, <<>>)

\* Faulty variant that C29 must reject: the branch deleted with its worktree
delete_workspace_remove_and_branch(st, workspace, branch, force, env) ==
    LET cmd == [cmd |-> "remove", path |-> workspace.path, branch |-> branch,
                newBranch |-> FALSE, base |-> None, force |-> RemoveForced(force)]
        rm == GitWorktreeRemove(st, workspace.path, RemoveForced(force),
                                workspace.path \notin env.fail)
    IN  IF ~rm.ok
        THEN Raise("WorkspaceError", "Failed to remove worktree: " \o rm.stderr,
                   st, <<cmd>>)
        ELSE Return(TRUE, [rm.st EXCEPT !.heads[branch] = None], <<cmd>>)

\* delete_workspace from its git worktree remove on, in the repository st as
\* it is by then
delete_workspace_remove(st, workspace, branch, force, env) ==
    LET cmd == [cmd |-> "remove", path |-> workspace.path, branch |-> branch,
                newBranch |-> FALSE, base |-> None, force |-> RemoveForced(force)]
        rm == GitWorktreeRemove(st, workspace.path, RemoveForced(force),
                                workspace.path \notin env.fail)
        parent == PathParent(workspace.path)
        empty == ParentEmpty(rm.st, parent)
    IN  IF ~rm.ok
        THEN Raise("WorkspaceError", "Failed to remove worktree: " \o rm.stderr,
                   st, <<cmd>>)
        ELSE Return(TRUE,
                    IF empty THEN ParentRmdir(rm.st, parent, parent \notin env.fail)
                    ELSE rm.st,
                    <<cmd>>)

\* WorkspaceManager.delete_workspace
delete_workspace(st, branch, force, env) ==
    LET checked == delete_workspace_check(st, branch, force, env)
    IN  IF checked.exc # None THEN checked
        ELSE delete_workspace_remove(st, checked.ret, branch, force, env)

\* Faulty variant that C22 must reject: git diff run without check=True
get_workspace_diff_unchecked(st, workspace, target_branch, env) ==
    LET cmd == [cmd |-> "diff", path |-> workspace.path, branch |-> workspace.branch,
                newBranch |-> FALSE, base |-> target_branch, force |-> FALSE]
        diff == GitDiff(st, workspace.path, target_branch, workspace.path \notin env.fail)
    IN  Return(diff.stdout, st, <<cmd>>)

\* WorkspaceManager.get_workspace_diff
get_workspace_diff(st, workspace, target_branch, env) ==
    LET cmd == [cmd |-> "diff", path |-> workspace.path, branch |-> workspace.branch,
                newBranch |-> FALSE, base |-> target_branch, force |-> FALSE]
        diff == GitDiff(st, workspace.path, target_branch, workspace.path \notin env.fail)
    IN  IF ~diff.ok
        THEN Raise("WorkspaceError", "Failed to get diff: " \o diff.stderr, st, <<cmd>>)
        ELSE Return(diff.stdout, st, <<cmd>>)

\* Faulty variant that C30 must reject: the test of the branch dropped
HasBranchAlways(workspace) == TRUE

\* clean_workspaces: `... and workspace.branch`
HasBranch(workspace) == workspace.branch # None /\ workspace.branch # ""

\* The loop of clean_workspaces over the list taken at its start
RECURSIVE CleanLoop(_, _, _, _, _, _)
CleanLoop(workspaces, st, check_merged, env, removed, git) ==
    IF Len(workspaces) = 0 THEN Return(removed, st, git)
    ELSE
      LET workspace == Head(workspaces)
          rest == Tail(workspaces)
      IN  IF workspace.is_main
          THEN CleanLoop(rest, st, check_merged, env, removed, git)
          ELSE IF ~RepoOpens(st, workspace.path)
          THEN \* `is_clean, _ = workspace.is_clean` stands outside the try
               Raise("NoSuchPathError", workspace.path, st, git)
          ELSE IF (~check_merged \/ is_clean(st, workspace)[1])
                  /\ HasBranch(workspace)
          THEN LET del == delete_workspace(st, workspace.branch, ~check_merged, env)
               IN  IF del.exc = None
                   THEN CleanLoop(rest, del.st, check_merged, env,
                                  Append(removed, workspace.branch), git \o del.git)
                   ELSE CleanLoop(rest, del.st, check_merged, env, removed,
                                  git \o del.git)
          ELSE CleanLoop(rest, st, check_merged, env, removed, git)

\* WorkspaceManager.clean_workspaces
clean_workspaces(st, check_merged, env) ==
    CleanLoop(list_workspaces(st, TRUE, env.listOk), st, check_merged, env, <<>>, <<>>)

(***************************************************************************)
(* The state machine: manager calls, and the user's own git commands and   *)
(* edits between them.                                                     *)
(***************************************************************************)
\* The most worktrees the model lets the repository hold, the main one included
MaxWorktrees == 3

\* The most commits the user makes
MaxCommits == 1

\* The --base values a call draws from: none, and a name that is a branch of
\* origin only until it is checked out locally
BaseChoices == {None, "dev"}

GitWorks == [listOk |-> TRUE, fail |-> {}]

\* How git behaves during one call: it works, or its listing fails, or its
\* worktree add/remove fails for one of the given paths
Envs(paths) ==
    {GitWorks, [listOk |-> FALSE, fail |-> {}]}
    \cup {[listOk |-> TRUE, fail |-> {p}] : p \in paths}

NoRepo == [worktrees |-> <<>>, heads |-> [b \in BranchNames |-> None], dirs |-> {}]

NoCall == [op |-> "none", branch |-> None, base |-> None, flag |-> FALSE,
           env |-> GitWorks, pre |-> NoRepo,
           exc |-> None, msg |-> "", ret |-> None, git |-> <<>>]

MainWorktree == NewWorktree(RepoRoot, "main", InitialCommit)

\* No file of the context copy exists
NoFiles == [p \in {} |-> ""]

Init ==
    /\ worktrees = <<MainWorktree>>
    /\ heads = [b \in BranchNames |-> IF b = "main" THEN InitialCommit ELSE None]
    /\ dirs = {RepoRoot}
    /\ last = NoCall
    /\ porcelain = <<>>
    /\ files = NoFiles

\* The files left when the directories `before` have become `after`: a file
\* below a directory that was removed went with it
FilesLeft(fs_files, before, after) ==
    LET gone == before \ after
        kept == {p \in DOMAIN fs_files : \A d \in gone : ~IsUnder(p, d)}
    IN  [p \in kept |-> fs_files[p]]

\* A manager call with result r: the repository becomes r.st
Called(op, branch, base, flag, env, r) ==
    /\ last = NoCall
    /\ Len(r.st.worktrees) <= MaxWorktrees
    /\ worktrees' = r.st.worktrees
    /\ heads' = r.st.heads
    /\ dirs' = r.st.dirs
    /\ last' = [op |-> op, branch |-> branch, base |-> base, flag |-> flag,
                env |-> env, pre |-> Repo,
                exc |-> r.exc, msg |-> r.msg, ret |-> r.ret, git |-> r.git]
    /\ files' = FilesLeft(files, dirs, r.st.dirs)
    /\ UNCHANGED porcelain

\* The repository changed by the user, outside any manager call
Changed(st) ==
    /\ last = NoCall
    /\ Len(st.worktrees) <= MaxWorktrees
    /\ worktrees' = st.worktrees
    /\ heads' = st.heads
    /\ dirs' = st.dirs
    /\ last' = NoCall
    /\ files' = FilesLeft(files, dirs, st.dirs)
    /\ UNCHANGED porcelain

CreateWorkspace ==
    \E branch \in BranchNames, base \in BaseChoices :
      \E env \in Envs({get_workspace_path(branch)}) :
        Called("create", branch, base, FALSE, env,
               create_workspace(Repo, branch, base, env))

DeleteWorkspace ==
    \E branch \in BranchNames, force \in BOOLEAN :
      \E env \in Envs({worktrees[i].path : i \in CheckedOutAt(Repo, branch)}) :
        Called("delete", branch, None, force, env,
               delete_workspace(Repo, branch, force, env))

CleanWorkspaces ==
    \E check_merged \in BOOLEAN :
      \E env \in Envs({worktrees[i].path : i \in 2..Len(worktrees)}) :
        Called("clean", None, None, check_merged, env,
               clean_workspaces(Repo, check_merged, env))

ListWorkspaces ==
    \E managed_only \in BOOLEAN, listOk \in BOOLEAN :
        Called("list", None, None, managed_only, [listOk |-> listOk, fail |-> {}],
               Return(list_workspaces(Repo, managed_only, listOk), Repo, <<>>))

GetWorkspace ==
    \E branch \in BranchNames, listOk \in BOOLEAN :
        Called("get", branch, None, FALSE, [listOk |-> listOk, fail |-> {}],
               get_workspace(Repo, branch, listOk))

\* The command has printed its result and its process ends
Exit ==
    /\ last # NoCall
    /\ last' = NoCall
    /\ UNCHANGED <<worktrees, heads, dirs, porcelain, files>>

\* The commits the user has made: the heads that left the initial commit
CommitsMade ==
    Cardinality({b \in BranchNames : heads[b] = LaterCommit})
    + Cardinality({i \in 1..Len(worktrees) :
                     worktrees[i].branch = None /\ worktrees[i].head = LaterCommit})

\* The user edits the tracked file of a worktree
UserEdit ==
    \E i \in 2..Len(worktrees) :
        /\ worktrees[i].path \in dirs
        /\ TrackedFile \notin worktrees[i].unstaged
        /\ Changed([Repo EXCEPT !.worktrees[i].unstaged = @ \cup {TrackedFile}])

\* The user creates a file in a worktree
UserNewFile ==
    \E i \in 2..Len(worktrees) :
        /\ worktrees[i].path \in dirs
        /\ NewFile \notin worktrees[i].untracked
        /\ Changed([Repo EXCEPT !.worktrees[i].untracked = @ \cup {NewFile}])

\* The user stages the edits of a worktree: git add -u
UserStage ==
    \E i \in 2..Len(worktrees) :
        /\ worktrees[i].unstaged # {}
        /\ Changed([Repo EXCEPT !.worktrees[i].staged = @ \cup worktrees[i].unstaged,
                                !.worktrees[i].unstaged = {}])

\* The user commits everything in a worktree: git add -A; git commit
UserCommitAll ==
    \E i \in 2..Len(worktrees) :
        LET w == worktrees[i]
        IN  /\ WorktreeDirty(w)
            /\ w.head = InitialCommit
            /\ CommitsMade < MaxCommits
            /\ Changed([worktrees |->
                            [worktrees EXCEPT ![i] =
                                NewWorktree(w.path, w.branch, LaterCommit)],
                        heads |-> IF w.branch = None THEN heads
                                  ELSE [heads EXCEPT ![w.branch] = LaterCommit],
                        dirs |-> dirs])

\* The user throws the changes of a worktree away: git reset --hard; git clean -f
UserDiscard ==
    \E i \in 2..Len(worktrees) :
        LET w == worktrees[i]
        IN  /\ WorktreeDirty(w)
            /\ Changed([Repo EXCEPT !.worktrees[i] = NewWorktree(w.path, w.branch, w.head)])

\* The user detaches the HEAD of a worktree: git checkout --detach
UserDetach ==
    \E i \in 1..Len(worktrees) :
        /\ worktrees[i].branch # None
        /\ Changed([Repo EXCEPT !.worktrees[i].branch = None])

\* The user adds a worktree with plain git, outside the managed directory
UserWorktreeAdd ==
    \E path \in ExternalPaths, branch \in BranchNames :
        LET st1 == [Repo EXCEPT !.dirs = @ \cup {PathParent(path)}]
            add == GitWorktreeAdd(st1, path, branch, ~branch_exists(st1, branch),
                                  "HEAD", TRUE)
        IN  /\ add.ok
            /\ Changed(add.st)

Next ==
    \/ CreateWorkspace
    \/ DeleteWorkspace
    \/ CleanWorkspaces
    \/ ListWorkspaces
    \/ GetWorkspace
    \/ Exit
    \/ UserEdit
    \/ UserNewFile
    \/ UserDiscard
    \/ UserWorktreeAdd

Spec == Init /\ [][Next]_vars

\* The same machine with the user's staging, commits and detached HEADs
UserNext ==
    \/ Next
    \/ UserStage
    \/ UserCommitAll
    \/ UserDetach

UserSpec == Init /\ [][UserNext]_vars

(***************************************************************************)
(* The parser on its own: a listing drawn from the shapes git prints, then *)
(* parse_worktree_list applied to it.                                      *)
(***************************************************************************)
\* The most groups of a listing
MaxGroups == 3

\* Groups as git prints them, without the blank line that ends them: a branch,
\* a detached HEAD, a locked worktree, a bare repository
GroupShapes ==
    { <<"worktree /home/u/proj", "HEAD a1b2c3d4e5f60718", "branch refs/heads/main">>,
      <<"worktree /tmp/wt", "HEAD 0f1e2d3c4b5a6978", "detached">>,
      <<"worktree /home/u/.claude/workspaces/proj/feat-x", "HEAD a1b2c3d4e5f60718",
        "branch refs/heads/feat/x", "locked">>,
      <<"worktree /srv/proj.git", "bare">> }

RECURSIVE JoinGroups(_, _)
JoinGroups(groups, trailingBlank) ==
    IF Len(groups) = 0 THEN <<>>
    ELSE IF Len(groups) = 1
         THEN groups[1] \o (IF trailingBlank THEN <<"">> ELSE <<>>)
    ELSE groups[1] \o <<"">> \o JoinGroups(Tail(groups), trailingBlank)

Listings ==
    { JoinGroups(groups, trailingBlank) :
        groups \in UNION {[1..n -> GroupShapes] : n \in 0..MaxGroups},
        trailingBlank \in BOOLEAN }

ParseInit ==
    /\ worktrees = <<>>
    /\ heads = [b \in BranchNames |-> None]
    /\ dirs = {}
    /\ last = NoCall
    /\ porcelain \in Listings
    /\ files = NoFiles

ParseListing ==
    /\ last = NoCall
    /\ last' = [NoCall EXCEPT !.op = "parse", !.ret = parse_worktree_list(porcelain)]
    /\ UNCHANGED <<worktrees, heads, dirs, porcelain, files>>

ParseNext == ParseListing

ParseSpec == ParseInit /\ [][ParseNext]_vars

(***************************************************************************)
(* Vocabulary of the properties.                                           *)
(***************************************************************************)
\* <home>/.claude/workspaces/<repo-name>, as the specification writes it
ManagedDir == Home \o "/.claude/workspaces/" \o PathName(RepoRoot)

\* The linked (non-main) worktrees of st that check out branch b
LinkedAt(st, b) == {i \in CheckedOutAt(st, b) : i > 1}

\* Branch b is checked out in a linked worktree of st that has changes
DirtyWorkspace(st, b) == \E i \in LinkedAt(st, b) : WorktreeDirty(st.worktrees[i])

\* Every behaviour of git a call of the model may meet
AllEnvs == Envs({get_workspace_path(b) : b \in BranchNames} \cup ExternalPaths)

InSeq(x, seq) == \E k \in 1..Len(seq) : seq[k] = x

(***************************************************************************)
(* C1.  Deletion guard.  For a branch checked out in a dirty workspace (a  *)
(* linked worktree with a modified or an untracked file) and git working:  *)
(* delete_workspace without force raises WorkspaceError and leaves the     *)
(* worktree, its files and its directory as they were; with force it       *)
(* returns True and the worktree and its directory are gone.               *)
(***************************************************************************)
C1_DeletionGuard ==
    (last.op = "delete" /\ last.env = GitWorks /\ DirtyWorkspace(last.pre, last.branch))
    => LET i == CHOOSE k \in LinkedAt(last.pre, last.branch) : TRUE
           path == last.pre.worktrees[i].path
       IN  IF last.flag
           THEN /\ last.exc = None
                /\ last.ret = TRUE
                /\ CheckedOutAt(Repo, last.branch) = {}
                /\ WorktreeIndexAt(Repo, path) = 0
                /\ path \notin dirs
           ELSE /\ last.exc = "WorkspaceError"
                /\ Contains(last.msg, "uncommitted changes")
                /\ Contains(last.msg, "--force")
                /\ worktrees = last.pre.worktrees
                /\ dirs = last.pre.dirs

C1_Witness ==
    /\ last.op = "delete"
    /\ last.flag
    /\ last.env = GitWorks
    /\ DirtyWorkspace(last.pre, last.branch)
    /\ last.exc = None

(***************************************************************************)
(* C2.  No branch is checked out by two worktrees, in any reachable state; *)
(* and a create_workspace for a branch that some worktree checks out, with *)
(* git's listing working, raises WorkspaceExistsError or BranchInUseError  *)
(* without having run git worktree add and without changing anything.      *)
(***************************************************************************)
C2_OneWorktreePerBranch ==
    /\ \A i, j \in 1..Len(worktrees) :
          (worktrees[i].branch = worktrees[j].branch /\ worktrees[i].branch # None)
          => i = j
    /\ (last.op = "create" /\ last.env.listOk
            /\ CheckedOutAt(last.pre, last.branch) # {})
       => /\ last.exc \in {"WorkspaceExistsError", "BranchInUseError"}
          /\ last.git = <<>>
          /\ Repo = last.pre

C2_Witness ==
    /\ last.op = "create"
    /\ CheckedOutAt(last.pre, last.branch) # {}
    /\ last.exc = "BranchInUseError"
    /\ last.git = <<>>

(***************************************************************************)
(* C3.  create_workspace(B) twice in succession: after a create that       *)
(* returned, a second create of the same branch raises                     *)
(* WorkspaceExistsError, whatever its base and whatever git does; and a    *)
(* create of a branch whose workspace stands at its target path raises     *)
(* WorkspaceExistsError, not BranchInUseError.                             *)
(***************************************************************************)
C3_SecondCreateExists ==
    /\ (last.op = "create" /\ last.exc = None)
       => \A base \in BaseChoices, env \in AllEnvs :
             create_workspace(Repo, last.branch, base, env).exc = "WorkspaceExistsError"
    /\ (last.op = "create"
            /\ \E i \in CheckedOutAt(last.pre, last.branch) :
                  last.pre.worktrees[i].path
                      = ManagedDir \o "/" \o sanitize_workspace_name(last.branch))
       => last.exc = "WorkspaceExistsError"

C3_Witness ==
    /\ last.op = "create"
    /\ last.exc = "WorkspaceExistsError"
    /\ \E i \in CheckedOutAt(last.pre, last.branch) :
          last.pre.worktrees[i].path
              = ManagedDir \o "/" \o sanitize_workspace_name(last.branch)

(***************************************************************************)
(* C4.  create_workspace(B) raises BranchInUseError whenever some worktree *)
(* checks B out (the main one, or one outside the managed directory) and   *)
(* the target path of B does not exist, git's listing working.             *)
(***************************************************************************)
C4_BranchInUse ==
    (last.op = "create" /\ last.env.listOk
        /\ CheckedOutAt(last.pre, last.branch) # {}
        /\ (ManagedDir \o "/" \o sanitize_workspace_name(last.branch)) \notin last.pre.dirs)
    => /\ last.exc = "BranchInUseError"
       /\ Repo = last.pre

\* The branch is checked out outside the managed directory
C4_Witness ==
    /\ last.op = "create"
    /\ last.exc = "BranchInUseError"
    /\ \E i \in LinkedAt(last.pre, last.branch) :
          last.pre.worktrees[i].path \in ExternalPaths

(***************************************************************************)
(* C5.  Round trip.  After create_workspace(B) returned, get_workspace(B)  *)
(* returns the workspace create returned: its branch is B, its path is     *)
(* <home>/.claude/workspaces/<repo>/<sanitize(B)>, it is managed and not   *)
(* main, and list_workspaces() with the default filter holds it.           *)
(***************************************************************************)
C5_CreateRoundTrip ==
    (last.op = "create" /\ last.exc = None)
    => LET got == get_workspace(Repo, last.branch, TRUE)
       IN  /\ got.exc = None
           /\ got.ret = last.ret
           /\ got.ret.branch = last.branch
           /\ got.ret.path = ManagedDir \o "/" \o sanitize_workspace_name(last.branch)
           /\ (last.branch = "feat/x"
                  => got.ret.path = "/home/u/.claude/workspaces/proj/feat-x")
           /\ IsUnder(got.ret.path, ManagedDir)
           /\ is_managed(got.ret)
           /\ ~got.ret.is_main
           /\ InSeq(got.ret, list_workspaces(Repo, TRUE, TRUE))

C5_Witness ==
    /\ last.op = "create"
    /\ last.exc = None
    /\ last.branch = "feat/x"
    /\ InSeq(last.ret, list_workspaces(Repo, TRUE, TRUE))

(***************************************************************************)
(* C6.  A workspace enters the lifecycle through create_workspace only and *)
(* starts clean.  In every step: a create that returns leaves its          *)
(* workspace with is_clean = (True, "Clean"); no manager call turns a      *)
(* clean worktree that it keeps into a dirty one (only an edit does); and  *)
(* a worktree that appears below the managed directory was put there, by   *)
(* its git worktree add, by a create_workspace call, and is clean.         *)
(***************************************************************************)
C6_CreatedClean ==
    [][ /\ (last'.op = "create" /\ last'.exc = None)
           => is_clean(Repo', last'.ret) = <<TRUE, "Clean">>
        /\ last'.op # "none"
           => \A i \in 1..Len(worktrees) :
                 LET path == worktrees[i].path
                 IN  (is_worktree_clean(Repo, path)[1] /\ WorktreeIndexAt(Repo', path) # 0)
                     => is_worktree_clean(Repo', path) = <<TRUE, "Clean">>
        /\ \A i \in 1..Len(worktrees') :
              (IsUnder(worktrees'[i].path, ManagedDir)
                  /\ WorktreeIndexAt(Repo, worktrees'[i].path) = 0)
              => /\ last'.op = "create"
                 /\ Len(last'.git) = 1
                 /\ last'.git[1].path = worktrees'[i].path
                 /\ is_worktree_clean(Repo', worktrees'[i].path) = <<TRUE, "Clean">>
      ]_vars

C6_Witness ==
    /\ last.op = "create"
    /\ last.exc = None
    /\ is_clean(Repo, last.ret) = <<TRUE, "Clean">>
    /\ IsUnder(last.ret.path, ManagedDir)

C8_ListManagedNotMain ==
    (last.op = "list" /\ last.env.listOk)
    => LET all == discover_workspaces(last.pre, TRUE)
       IN  /\ Len(all) = Len(last.pre.worktrees)
           /\ all[1].is_main
           /\ last.ret = IF last.flag
                         THEN SelectSeq(all, LAMBDA w :
                                  IsUnder(w.path, ManagedDir) /\ ~w.is_main)
                         ELSE all

(***************************************************************************)
(* C9.  For every worktree, is_managed is true if and only if its path     *)
(* lies below <home>/.claude/workspaces/<repo-name> of the current user    *)
(* and repository.                                                         *)
(***************************************************************************)
C9_ManagedIffUnderManagedDir ==
    LET all == discover_workspaces(Repo, TRUE)
    IN  \A k \in 1..Len(all) : is_managed(all[k]) <=> IsUnder(all[k].path, ManagedDir)

(***************************************************************************)
(* C10.  Discovery ordering.  A listing with N groups (git starts each     *)
(* with a "worktree" line) parses to N workspaces whose paths are those of *)
(* the groups in the order of the listing; is_main is true of the first    *)
(* workspace and of no other.                                              *)
(***************************************************************************)
GroupStarts == {i \in 1..Len(porcelain) : StartsWith(porcelain[i], "worktree ")}

\* The line that opens the k-th group
KthGroupStart(k) ==
    CHOOSE i \in GroupStarts : Cardinality({j \in GroupStarts : j < i}) = k - 1

C10_DiscoveryOrder ==
    (last.op = "parse")
    => LET N == Cardinality(GroupStarts)
       IN  /\ Len(last.ret) = N
           /\ \A k \in 1..N :
                 /\ last.ret[k].path = DropPrefix(porcelain[KthGroupStart(k)], 9)
                 /\ last.ret[k].is_main <=> (k = 1)
           /\ N >= 1 => Cardinality({k \in 1..N : last.ret[k].is_main}) = 1

\* Three groups, the last one not followed by a blank line
C10_Witness ==
    /\ last.op = "parse"
    /\ Len(last.ret) = 3
    /\ porcelain[Len(porcelain)] # ""
    /\ last.ret[1].is_main
    /\ ~last.ret[3].is_main

(***************************************************************************)
(* C11.  When `git worktree list` exits with a failure, discovery gives    *)
(* the empty list and raises nothing: list_workspaces(managed_only=False), *)
(* which returns what discover_workspaces returned, returns [] whatever    *)
(* worktrees the repository holds, and changes nothing.                    *)
(***************************************************************************)
C11_DiscoverFailureEmpty ==
    /\ discover_workspaces(Repo, FALSE) = <<>>
    /\ (last.op = "list" /\ ~last.env.listOk)
       => /\ last.exc = None
          /\ last.ret = <<>>
          /\ Repo = last.pre

\* The listing fails in a repository that holds a workspace
C11_Witness ==
    /\ last.op = "list"
    /\ ~last.env.listOk
    /\ ~last.flag
    /\ Len(last.pre.worktrees) >= 2
    /\ last.ret = <<>>

(***************************************************************************)
(* sanitize_workspace_name on its own: a branch name drawn from the short  *)
(* strings over an alphabet with a member of every class the three re.sub  *)
(* passes tell apart, and from the examples of the docstring.              *)
(***************************************************************************)
\* The longest name drawn from the alphabet
MaxNameLen == 3

\* A letter, a capital, a digit, both separators, blank and tab, underscore,
\* hyphen, dot, and a character outside every class
NameChars == {"a", "B", "1", "/", "\\", " ", "\t", "_", "-", ".", "@"}

RECURSIVE NamesOfLen(_)
NamesOfLen(n) ==
    IF n = 0 THEN {""}
    ELSE {c \o s : c \in NameChars, s \in NamesOfLen(n - 1)}

SanitizeInputs ==
    UNION {NamesOfLen(n) : n \in 0..MaxNameLen}
    \cup {"feature/auth-api", "feat/BS-123-new", "feat/BS 123_new"}

SanitizeInit ==
    /\ worktrees = <<>>
    /\ heads = [b \in BranchNames |-> None]
    /\ dirs = {}
    /\ last \in {[NoCall EXCEPT !.branch = n] : n \in SanitizeInputs}
    /\ porcelain = <<>>
    /\ files = NoFiles

Sanitize ==
    /\ last.op = "none"
    /\ last' = [last EXCEPT !.op = "sanitize",
                            !.ret = sanitize_workspace_name(last.branch)]
    /\ UNCHANGED <<worktrees, heads, dirs, porcelain, files>>

SanitizeNext == Sanitize

SanitizeSpec == SanitizeInit /\ [][SanitizeNext]_vars

(***************************************************************************)
(* C12.  sanitize_workspace_name(branch) holds no "/", no "\", no blank,   *)
(* no tab and no underscore; every character of it is a letter, a digit,   *)
(* "-" or "."; it neither starts nor ends with "-"; and                    *)
(* "feature/auth-api" gives "feature-auth-api", "feat/BS 123_new" gives    *)
(* "feat-BS-123-new".                                                      *)
(***************************************************************************)
C12_SanitizeSafe ==
    (last.op = "sanitize")
    => LET name == last.ret
       IN  /\ \A i \in 1..Len(name) :
                 /\ SubSeq(name, i, i) \in SafeChars
                 /\ SubSeq(name, i, i) \notin {"/", "\\", " ", "\t", "_"}
           /\ name # "" => /\ SubSeq(name, 1, 1) # "-"
                           /\ SubSeq(name, Len(name), Len(name)) # "-"
           /\ last.branch = "feature/auth-api" => name = "feature-auth-api"
           /\ last.branch = "feat/BS 123_new" => name = "feat-BS-123-new"

\* A name with a separator, a blank and an underscore, hyphens at both ends
C12_Witness ==
    /\ last.op = "sanitize"
    /\ last.branch = "/a_"
    /\ last.ret = "a"

(***************************************************************************)
(* C13.  clean_workspaces(check_merged=True) removes only workspaces that  *)
(* lie below <home>/.claude/workspaces/<repo-name>, are not main and are   *)
(* clean: the main worktree, every dirty worktree and every worktree       *)
(* outside the managed directory that was there before the call is there   *)
(* after it, unchanged; and the list returned holds exactly the branches   *)
(* of the worktrees that are gone, in discovery order.                     *)
(***************************************************************************)
C13_CleanOnlyManagedClean ==
    (last.op = "clean" /\ last.flag)
    => LET before == last.pre.worktrees
           gone == SelectSeq(before, LAMBDA w : WorktreeIndexAt(Repo, w.path) = 0)
       IN  /\ last.exc = None
           /\ \A i \in 1..Len(before) :
                 (i = 1 \/ WorktreeDirty(before[i])
                        \/ ~IsUnder(before[i].path, ManagedDir))
                 => InSeq(before[i], worktrees)
           /\ Len(last.ret) = Len(gone)
           /\ \A k \in 1..Len(gone) : last.ret[k] = gone[k].branch

(***************************************************************************)
(* Context copy (operations/context.py).  fs = [files, dirs] is the part   *)
(* of the filesystem it reads and writes; the paths it tests are regular   *)
(* files or absent.                                                        *)
(***************************************************************************)
\* files_to_copy, relative to the repository root
files_to_copy == <<".claude/settings.local.json", "CLAUDE.md">>

Fs == [files |-> files, dirs |-> dirs]

\* Faulty variant that C14 must reject: the test of the destination dropped
ShouldCopyOverwriting(fs, source_file, dest_file) == source_file \in DOMAIN fs.files

\* `if source_file.exists() and not dest_file.exists():`
ShouldCopy(fs, source_file, dest_file) ==
    source_file \in DOMAIN fs.files /\ dest_file \notin DOMAIN fs.files

\* dest_file.parent.mkdir(parents=True, exist_ok=True); shutil.copy2(source, dest)
CopyFile(fs, source_file, dest_file) ==
    [files |-> [p \in DOMAIN fs.files \cup {dest_file} |->
                   IF p = dest_file THEN fs.files[source_file] ELSE fs.files[p]],
     dirs |-> fs.dirs \cup {PathParent(dest_file)}]

\* The loop of copy_claude_context over files_to_copy
RECURSIVE CopyLoop(_, _, _, _, _)
CopyLoop(rel_paths, fs, workspace_path, source_root, copied) ==
    IF Len(rel_paths) = 0 THEN [copied |-> copied, fs |-> fs]
    ELSE
      LET rel_path == Head(rel_paths)
          source_file == PathJoin(source_root, rel_path)
          dest_file == PathJoin(workspace_path, rel_path)
      IN  IF ShouldCopy(fs, source_file, dest_file)
          THEN CopyLoop(Tail(rel_paths), CopyFile(fs, source_file, dest_file),
                        workspace_path, source_root, Append(copied, rel_path))
          ELSE CopyLoop(Tail(rel_paths), fs, workspace_path, source_root, copied)

copy_claude_context(fs, workspace_path, source_root) ==
    CopyLoop(files_to_copy, fs, workspace_path, source_root, <<>>)

(***************************************************************************)
(* The context copy on its own: a repository with one workspace, the       *)
(* listed files present or absent on either side with one of two contents, *)
(* copies into the workspace (or into the main worktree, where source and  *)
(* destination are one file), and the user deleting a file between calls.  *)
(***************************************************************************)
\* What a file may hold
FileContents == {"v1", "v2"}

\* The workspace the copies go to
CopyWorkspace == NewWorktree(get_workspace_path("feat/x"), "feat/x", InitialCommit)

\* The listed files of the repository root and of the workspace
CopyPaths ==
    {PathJoin(root, files_to_copy[k]) :
        root \in {RepoRoot, CopyWorkspace.path}, k \in 1..Len(files_to_copy)}

CopyInit ==
    /\ worktrees = <<MainWorktree, CopyWorkspace>>
    /\ heads = [b \in BranchNames |->
                  IF b \in {"main", "feat/x"} THEN InitialCommit ELSE None]
    /\ last = NoCall
    /\ porcelain = <<>>
    /\ \E present \in SUBSET CopyPaths :
          /\ files \in [present -> FileContents]
          /\ dirs = {RepoRoot, PathParent(CopyWorkspace.path), CopyWorkspace.path}
                    \cup {PathParent(p) : p \in present}

\* copy_claude_context(workspace.path, workspace.repo_root) for a worktree
CopyContext ==
    \E i \in 1..Len(worktrees) :
        LET r == copy_claude_context(Fs, worktrees[i].path, RepoRoot)
        IN  /\ last = NoCall
            /\ files' = r.fs.files
            /\ dirs' = r.fs.dirs
            /\ last' = [NoCall EXCEPT !.op = "copy", !.branch = worktrees[i].branch,
                                      !.pre = Repo, !.ret = r.copied]
            /\ UNCHANGED <<worktrees, heads, porcelain>>

\* The user deletes one of the listed files
UserRemoveFile ==
    \E p \in DOMAIN files :
        /\ last = NoCall
        /\ files' = [q \in DOMAIN files \ {p} |-> files[q]]
        /\ UNCHANGED <<worktrees, heads, dirs, last, porcelain>>

CopyNext ==
    \/ CopyContext
    \/ Exit
    \/ UserRemoveFile

CopySpec == CopyInit /\ [][CopyNext]_vars

(***************************************************************************)
(* C14.  In every copy_claude_context call, for each listed file: it is    *)
(* copied (the workspace gets it, with the content of the source) exactly  *)
(* when the source has it and the workspace had not; a file the workspace  *)
(* had keeps its content; the list returned holds exactly the relative     *)
(* paths copied, each once; no other file changes; and a second call right *)
(* after it returns [] and changes nothing.                                *)
(***************************************************************************)
C14_CopyNeverOverwrites ==
    [][ (last'.op = "copy")
        => LET i == CHOOSE k \in 1..Len(worktrees) : worktrees[k].branch = last'.branch
               workspace_path == worktrees[i].path
               again == copy_claude_context(Fs', workspace_path, RepoRoot)
           IN  /\ \A k \in 1..Len(files_to_copy) :
                     LET rel_path == files_to_copy[k]
                         source_file == PathJoin(RepoRoot, rel_path)
                         dest_file == PathJoin(workspace_path, rel_path)
                         copiedNow == dest_file \notin DOMAIN files
                                      /\ dest_file \in DOMAIN files'
                     IN  /\ copiedNow <=> (source_file \in DOMAIN files
                                           /\ dest_file \notin DOMAIN files)
                         /\ copiedNow => files'[dest_file] = files[source_file]
                         /\ InSeq(rel_path, last'.ret) <=> copiedNow
               /\ \A p \in DOMAIN files : p \in DOMAIN files' /\ files'[p] = files[p]
               /\ Len(last'.ret)
                    = Cardinality({last'.ret[k] : k \in 1..Len(last'.ret)})
               /\ Cardinality(DOMAIN files') = Cardinality(DOMAIN files) + Len(last'.ret)
               /\ again.copied = <<>>
               /\ again.fs = Fs'
      ]_vars

\* CLAUDE.md was copied; the settings file the workspace had was kept although
\* the source's differs
C14_Witness ==
    /\ last.op = "copy"
    /\ last.branch = "feat/x"
    /\ last.ret = <<"CLAUDE.md">>
    /\ PathJoin(RepoRoot, files_to_copy[1]) \in DOMAIN files
    /\ files[PathJoin(CopyWorkspace.path, files_to_copy[1])]
         # files[PathJoin(RepoRoot, files_to_copy[1])]
    /\ files[PathJoin(CopyWorkspace.path, "CLAUDE.md")]
         = files[PathJoin(RepoRoot, "CLAUDE.md")]

(***************************************************************************)
(* The CLI boundary (cli/commands/workspace.py, cli/main.py).  An          *)
(* exception class is the module that defines it and its name: two classes *)
(* of one name defined in two modules are two classes, and an except       *)
(* clause catches the instances of its classes and of their subclasses.    *)
(***************************************************************************)
\* The module whose classes WorkspaceManager raises
ManagerExceptionsModule == "claudectl.operations.workspace_ops"

\* The module whose classes the workspace commands import and catch
CliExceptionsModule == "claudectl.domain.exceptions"

\* The class of the exception a manager operation raised, by its name
RaisedClass(exc) == [module |-> ManagerExceptionsModule, name |-> exc]

\* issubclass(cls, handler): each module derives its errors from its own
\* WorkspaceError, and WorkspaceError from Exception
IsSubclass(cls, handler) ==
    \/ handler.name = "Exception"
    \/ /\ cls.module = handler.module
       /\ (cls.name = handler.name \/ handler.name = "WorkspaceError")

\* The classes named by the except clauses of a workspace command
ExceptClauses(command) ==
    LET names ==
          CASE command = "create" ->
                 {"NotInGitRepoError", "WorkspaceExistsError", "BranchInUseError",
                  "WorkspaceError"}
            [] command = "get" -> {"NotInGitRepoError", "WorkspaceNotFoundError"}
            [] command = "delete" ->
                 {"NotInGitRepoError", "WorkspaceNotFoundError", "WorkspaceError"}
            [] OTHER -> {"NotInGitRepoError"}
    IN  {[module |-> CliExceptionsModule, name |-> n] : n \in names}

\* main(): `except CLIError`, then `except Exception` with
\* hasattr(e, "exit_code") or hasattr(e, "to_result"); the manager's classes
\* are plain Exception subclasses with neither attribute
HandledByMain(cls) == cls.module = "claudectl.cli.output" /\ cls.name = "CLIError"

\* What a workspace command does with the outcome of its manager call: the
\* exit code of the process and what it printed
CliOutcome(command, exc, json) ==
    IF exc = None
    THEN [exit_code |-> 0, printed |-> IF json THEN "json result" ELSE "text"]
    ELSE IF \E handler \in ExceptClauses(command) : IsSubclass(RaisedClass(exc), handler)
    THEN [exit_code |-> 1,
          printed |-> IF json THEN "json failure result" ELSE "text failure result"]
    ELSE IF HandledByMain(RaisedClass(exc))
    THEN [exit_code |-> 1,
          printed |-> IF json THEN "json failure result" ELSE "text failure result"]
    ELSE [exit_code |-> 1, printed |-> "traceback"]

(***************************************************************************)
(* C15.  Every error a manager operation raises under a workspace command  *)
(* is caught at the CLI boundary: the command prints a failure result (a   *)
(* JSON object in JSON mode, text otherwise) and exits with code 1.        *)
(***************************************************************************)
C15_DomainErrorsCaught ==
    (last.op \in {"create", "get", "list", "delete", "clean"} /\ last.exc # None)
    => \A json \in BOOLEAN :
          LET out == CliOutcome(last.op, last.exc, json)
          IN  /\ out.exit_code = 1
              /\ out.printed = IF json THEN "json failure result"
                               ELSE "text failure result"

(***************************************************************************)
(* C16.  A create_workspace call that raises WorkspaceExistsError or       *)
(* BranchInUseError has run no git worktree add and leaves the worktrees,  *)
(* the branch heads and the directories on disk as they were: the parent   *)
(* directory of the target path is not created.                            *)
(***************************************************************************)
C16_FailedCreateChangesNothing ==
    (last.op = "create" /\ last.exc \in {"WorkspaceExistsError", "BranchInUseError"})
    => /\ last.git = <<>>
       /\ worktrees = last.pre.worktrees
       /\ heads = last.pre.heads
       /\ dirs = last.pre.dirs

\* The branch is in use and the parent of the target path not there
C16_Witness ==
    /\ last.op = "create"
    /\ last.exc = "BranchInUseError"
    /\ PathParent(get_workspace_path(last.branch)) \notin last.pre.dirs
    /\ PathParent(get_workspace_path(last.branch)) \notin dirs

(***************************************************************************)
(* Cleaning on its own: a repository with two workspaces made by           *)
(* create_workspace, the user editing them or deleting the directory of    *)
(* one with plain rm (git still lists such a worktree, as prunable), and   *)
(* clean_workspaces.                                                       *)
(***************************************************************************)
CleanInit ==
    /\ worktrees = <<MainWorktree,
                     NewWorktree(get_workspace_path("dev"), "dev", InitialCommit),
                     NewWorktree(get_workspace_path("feat/x"), "feat/x", InitialCommit)>>
    /\ heads = [b \in BranchNames |->
                  IF b \in {"main", "dev", "feat/x"} THEN InitialCommit ELSE None]
    /\ dirs = {RepoRoot, ManagedDir, get_workspace_path("dev"),
               get_workspace_path("feat/x")}
    /\ last = NoCall
    /\ porcelain = <<>>
    /\ files = NoFiles

\* The user deletes the directory of a workspace: rm -rf <path>
UserRemoveDir ==
    \E i \in 2..Len(worktrees) :
        LET w == worktrees[i]
        IN  /\ w.path \in dirs
            /\ Changed([worktrees |-> [worktrees EXCEPT
                                          ![i] = NewWorktree(w.path, w.branch, w.head)],
                        heads |-> heads,
                        dirs |-> {d \in dirs : d # w.path /\ ~IsUnder(d, w.path)}])

CleanNext ==
    \/ CleanWorkspaces
    \/ Exit
    \/ UserEdit
    \/ UserNewFile
    \/ UserRemoveDir

CleanSpec == CleanInit /\ [][CleanNext]_vars

(***************************************************************************)
(* C17.  clean_workspaces never fails as a whole: it raises nothing; a     *)
(* workspace whose deletion fails is left out of the result and the        *)
(* workspaces after it are still processed (each candidate is gone or git  *)
(* was asked to remove it); the list returned holds a branch if and only   *)
(* if its worktree was removed.                                            *)
(***************************************************************************)
C17_CleanNeverFails ==
    (last.op = "clean")
    => /\ last.exc = None
       /\ \A b \in BranchNames :
             InSeq(b, last.ret)
             <=> (CheckedOutAt(last.pre, b) # {} /\ CheckedOutAt(Repo, b) = {})
       /\ \A i \in 2..Len(last.pre.worktrees) :
             LET w == last.pre.worktrees[i]
             IN  (last.env.listOk /\ is_managed(w)
                    /\ (~last.flag \/ ~WorktreeDirty(w)))
                 => \/ WorktreeIndexAt(Repo, w.path) = 0
                    \/ \E k \in 1..Len(last.git) : last.git[k].path = w.path

(***************************************************************************)
(* Branching on its own: creates, with the user editing and committing in  *)
(* a workspace (so that branches come to differ) and detaching HEADs, the  *)
(* one of the main worktree included.                                      *)
(***************************************************************************)
BranchingNext ==
    \/ CreateWorkspace
    \/ Exit
    \/ UserEdit
    \/ UserCommitAll
    \/ UserDetach

BranchingSpec == Init /\ [][BranchingNext]_vars

GroupLines(k) ==
    LET stop == IF k < Cardinality(GroupStarts) THEN KthGroupStart(k + 1) - 1
                ELSE Len(porcelain)
    IN  KthGroupStart(k)..stop

C19_GroupFields ==
    (last.op = "parse")
    => /\ Len(last.ret) = Cardinality(GroupStarts)
       /\ \A k \in 1..Cardinality(GroupStarts) :
             LET headLines == {i \in GroupLines(k) : StartsWith(porcelain[i], "HEAD ")}
                 branchLines == {i \in GroupLines(k) : StartsWith(porcelain[i], "branch ")}
             IN  /\ headLines = {} => last.ret[k].commit = ""
                 /\ \A i \in headLines :
                       /\ last.ret[k].commit = SubSeq(porcelain[i], 6, 13)
                       /\ Len(last.ret[k].commit) = 8
                 /\ branchLines = {} => last.ret[k].branch = None
                 /\ \A i \in branchLines :
                       "branch refs/heads/" \o last.ret[k].branch = porcelain[i]

\* A branch group, then a detached one that ends the listing without a blank line
C19_Witness ==
    /\ last.op = "parse"
    /\ Len(last.ret) = 2
    /\ porcelain[Len(porcelain)] = "detached"
    /\ last.ret[1].branch = "feat/x"
    /\ last.ret[1].commit = "a1b2c3d4"
    /\ last.ret[2].branch = None
    /\ last.ret[2].commit = "0f1e2d3c"

(***************************************************************************)
(* The cleanliness check on its own: two workspaces, the user editing the  *)
(* tracked file, staging the edit, adding a file, discarding; and          *)
(* is_worktree_clean asked about a workspace.                              *)
(***************************************************************************)
\* workspace.is_clean, i.e. is_worktree_clean(workspace.path)
IsWorktreeClean ==
    \E i \in 2..Len(worktrees) :
        /\ last = NoCall
        /\ RepoOpens(Repo, worktrees[i].path)
        /\ last' = [NoCall EXCEPT !.op = "is_clean", !.branch = worktrees[i].branch,
                                  !.pre = Repo,
                                  !.ret = is_worktree_clean(Repo, worktrees[i].path)]
        /\ UNCHANGED <<worktrees, heads, dirs, porcelain, files>>

StatusNext ==
    \/ IsWorktreeClean
    \/ Exit
    \/ UserEdit
    \/ UserStage
    \/ UserNewFile
    \/ UserDiscard

StatusSpec == CleanInit /\ [][StatusNext]_vars

(***************************************************************************)
(* C20.  is_worktree_clean gives (True, "Clean") if and only if the        *)
(* worktree has no staged change, no unstaged change and no untracked      *)
(* file; for a dirty worktree it gives False and a message whose modified  *)
(* count is the number of modified files and whose untracked count is the  *)
(* number of untracked files, a count of zero left out; one edited tracked *)
(* file gives (False, "1 modified").                                       *)
(***************************************************************************)
C20_CleanIffNoChanges ==
    (last.op = "is_clean")
    => LET i == CHOOSE k \in 1..Len(worktrees) : worktrees[k].branch = last.branch
           w == worktrees[i]
           modified == Cardinality(w.staged \cup w.unstaged)
           untracked == Cardinality(w.untracked)
           message ==
               IF modified # 0 /\ untracked # 0
               THEN NumStr(modified) \o " modified, " \o NumStr(untracked) \o " untracked"
               ELSE IF modified # 0 THEN NumStr(modified) \o " modified"
               ELSE NumStr(untracked) \o " untracked"
       IN  /\ last.ret[1] <=> (modified = 0 /\ untracked = 0)
           /\ last.ret[1] => last.ret[2] = "Clean"
           /\ ~last.ret[1] => last.ret[2] = message
           /\ (w.unstaged = {TrackedFile} /\ w.staged = {} /\ w.untracked = {})
              => last.ret = <<FALSE, "1 modified">>

(***************************************************************************)
(* External commands run with a timeout (cli/commands/hook.py,             *)
(* cli/main.py, operations/init_ops.py).  What subprocess.run(...,         *)
(* timeout=t, check=False) meets is one of: the executable is not there    *)
(* (FileNotFoundError), the timeout expires (TimeoutExpired), the command  *)
(* exits non-zero, it exits 0 with output that is of no use (not JSON, or  *)
(* blank), it exits 0 with an empty JSON list, it exits 0 with good        *)
(* output.                                                                 *)
(***************************************************************************)
RunOutcomes == {"missing", "timeout", "nonzero", "garbage", "empty", "ok"}

\* The exception subprocess.run raises for an outcome, None when it returns
RunRaises(outcome) ==
    IF outcome = "missing" THEN "FileNotFoundError"
    ELSE IF outcome = "timeout" THEN "TimeoutExpired"
    ELSE None

\* The base classes of the built-in and subprocess exceptions at play
ExceptionBases(cls) ==
    CASE cls = "TimeoutExpired" -> {"TimeoutExpired", "SubprocessError", "Exception"}
      [] cls = "FileNotFoundError" -> {"FileNotFoundError", "OSError", "Exception"}
      [] cls = "JSONDecodeError" -> {"JSONDecodeError", "ValueError", "Exception"}
      [] OTHER -> {cls, "Exception"}

\* An except clause naming `handlers` catches an exception of class cls
Catches(handlers, cls) == ExceptionBases(cls) \cap handlers # {}

\* `except (subprocess.SubprocessError, json.JSONDecodeError,
\*          subprocess.TimeoutExpired)` of the two queries of hook.py
HookQueryHandlers == {"SubprocessError", "JSONDecodeError", "TimeoutExpired"}

\* `except (subprocess.TimeoutExpired, FileNotFoundError)` of the two claude calls
ClaudeCallHandlers == {"TimeoutExpired", "FileNotFoundError"}

\* The value a call gives, or the exception that leaves it
Gives(ret) == [exc |-> None, ret |-> ret]

Propagates(exc) == [exc |-> exc, ret |-> None]

\* The body of a query of hook.py after subprocess.run returned: json.loads
\* of the output, then the value built from it
HookQuery(outcome, value) ==
    LET raised == IF RunRaises(outcome) # None THEN RunRaises(outcome)
                  ELSE IF outcome = "garbage" THEN "JSONDecodeError"
                  ELSE None
    IN  IF raised # None
        THEN IF Catches(HookQueryHandlers, raised) THEN Gives(None)
             ELSE Propagates(raised)
        ELSE IF outcome \in {"nonzero", "empty"} THEN Gives(None)
        ELSE Gives(value)

\* _get_pr_status: gh pr view --json ..., timeout 5; "empty" is a pull
\* request that is not open
get_pr_status(outcome) == HookQuery(outcome, "pr summary")

\* _get_workspace_sessions: claudectl workspace list --json, timeout 5
get_workspace_sessions(outcome) == HookQuery(outcome, "workspaces")

\* get_claude_info: (installed, version, path); claude --version, timeout 10
get_claude_info(which, outcome) ==
    IF ~which THEN Gives(<<FALSE, None, None>>)
    ELSE IF RunRaises(outcome) # None
    THEN IF Catches(ClaudeCallHandlers, RunRaises(outcome))
         THEN Gives(<<TRUE, None, "/usr/bin/claude">>)
         ELSE Propagates(RunRaises(outcome))
    ELSE IF outcome = "nonzero" THEN Gives(<<TRUE, None, "/usr/bin/claude">>)
    ELSE Gives(<<TRUE, IF outcome = "ok" THEN "1.0.0" ELSE "", "/usr/bin/claude">>)

\* InitManager._index_repository: claude --print ..., timeout 90; inserted is
\* what _insert_repository_index returns
index_repository(which, outcome, inserted) ==
    IF ~which THEN Gives(FALSE)
    ELSE IF RunRaises(outcome) # None
    THEN IF Catches(ClaudeCallHandlers, RunRaises(outcome)) THEN Gives(FALSE)
         ELSE Propagates(RunRaises(outcome))
    ELSE IF outcome = "ok" THEN Gives(inserted)
    ELSE Gives(FALSE)

(***************************************************************************)
(* The external commands on their own: how gh, claudectl and claude behave *)
(* is drawn at the start, then one of the four calls is made.              *)
(***************************************************************************)
ExternalEnvs ==
    [gh : RunOutcomes, claudectl : RunOutcomes, claude : RunOutcomes,
     which : BOOLEAN, inserted : BOOLEAN]

ExternalInit ==
    /\ worktrees = <<MainWorktree>>
    /\ heads = [b \in BranchNames |-> IF b = "main" THEN InitialCommit ELSE None]
    /\ dirs = {RepoRoot}
    /\ last \in {[NoCall EXCEPT !.env = e] : e \in ExternalEnvs}
    /\ porcelain = <<>>
    /\ files = NoFiles

\* A call of one of the four functions with result r
ExternalCall(op, r) ==
    /\ last.op = "none"
    /\ last' = [last EXCEPT !.op = op, !.exc = r.exc, !.ret = r.ret]
    /\ UNCHANGED <<worktrees, heads, dirs, porcelain, files>>

GetPrStatus == ExternalCall("get_pr_status", get_pr_status(last.env.gh))

GetWorkspaceSessions ==
    ExternalCall("get_workspace_sessions", get_workspace_sessions(last.env.claudectl))

GetClaudeInfo ==
    ExternalCall("get_claude_info", get_claude_info(last.env.which, last.env.claude))

IndexRepository ==
    ExternalCall("index_repository",
                 index_repository(last.env.which, last.env.claude, last.env.inserted))

ExternalNext ==
    \/ GetPrStatus
    \/ GetWorkspaceSessions
    \/ GetClaudeInfo
    \/ IndexRepository

ExternalSpec == ExternalInit /\ [][ExternalNext]_vars

(***************************************************************************)
(* C21.  Each of the four calls, when its command times out or its         *)
(* executable is missing, raises nothing and gives its caller the absent   *)
(* value: None from the two queries, no version from get_claude_info,      *)
(* False from _index_repository.                                           *)
(***************************************************************************)
C21_TimeoutAndMissingAreSoft ==
    LET soft == {"timeout", "missing"}
    IN  /\ (last.op = "get_pr_status" /\ last.env.gh \in soft)
           => (last.exc = None /\ last.ret = None)
        /\ (last.op = "get_workspace_sessions" /\ last.env.claudectl \in soft)
           => (last.exc = None /\ last.ret = None)
        /\ (last.op = "get_claude_info" /\ last.env.claude \in soft)
           => (last.exc = None /\ last.ret[2] = None)
        /\ (last.op = "index_repository" /\ last.env.claude \in soft)
           => (last.exc = None /\ last.ret = FALSE)

(***************************************************************************)
(* The git commands that can fail, on their own: creates, deletes and      *)
(* diffs, with the user editing and committing in a workspace and deleting *)
(* the directory of one.                                                   *)
(***************************************************************************)
\* The --target values a diff draws from: the default, and a name that is a
\* local branch only once it is checked out
DiffTargets == {"main", "dev"}

\* The diff command: get_workspace(branch), then get_workspace_diff
GetWorkspaceDiff ==
    \E branch \in BranchNames, target \in DiffTargets :
      \E env \in Envs({worktrees[i].path : i \in CheckedOutAt(Repo, branch)}) :
        LET got == get_workspace(Repo, branch, env.listOk)
        IN  Called("diff", branch, target, FALSE, env,
                   IF got.exc # None THEN got
                   ELSE get_workspace_diff(Repo, got.ret, target, env))

GitErrorNext ==
    \/ CreateWorkspace
    \/ DeleteWorkspace
    \/ GetWorkspaceDiff
    \/ Exit
    \/ UserEdit
    \/ UserCommitAll
    \/ UserRemoveDir

GitErrorSpec == Init /\ [][GitErrorNext]_vars

(***************************************************************************)
(* C22.  When the git worktree add of create_workspace, the git worktree   *)
(* remove of delete_workspace or the git diff of get_workspace_diff fails, *)
(* the call raises WorkspaceError whose message ends with what git wrote   *)
(* to stderr, and leaves the repository as git left it; when the add       *)
(* succeeded and the listing taken after it does not hold the branch,      *)
(* create_workspace raises WorkspaceError too; in each case nothing is     *)
(* returned.                                                               *)
(***************************************************************************)
C22_GitFailureIsWorkspaceError ==
    (last.op \in {"create", "delete", "diff"} /\ Len(last.git) = 1)
    => LET cmd == last.git[1]
           gitOk == cmd.path \notin last.env.fail
           st1 == [last.pre EXCEPT !.dirs = @ \cup {PathParent(cmd.path)}]
           add == GitWorktreeAdd(st1, cmd.path, cmd.branch, cmd.newBranch, cmd.base, gitOk)
           rm == GitWorktreeRemove(last.pre, cmd.path, cmd.force, gitOk)
           diff == GitDiff(last.pre, cmd.path, cmd.base, gitOk)
           failed(stderr, prefix) ==
               /\ last.exc = "WorkspaceError"
               /\ stderr # ""
               /\ last.msg = prefix \o stderr
               /\ last.ret = None
       IN  /\ (cmd.cmd = "add" /\ ~add.ok)
              => failed(add.stderr, "Failed to create worktree: ") /\ Repo = st1
           /\ (cmd.cmd = "add" /\ add.ok
                 /\ \A k \in 1..Len(discover_workspaces(add.st, last.env.listOk)) :
                       discover_workspaces(add.st, last.env.listOk)[k].branch # last.branch)
              => /\ last.exc = "WorkspaceError"
                 /\ last.msg = "Workspace created but could not be found"
                 /\ last.ret = None
           /\ (cmd.cmd = "remove" /\ ~rm.ok)
              => failed(rm.stderr, "Failed to remove worktree: ") /\ Repo = last.pre
           /\ (cmd.cmd = "diff" /\ ~diff.ok)
              => failed(diff.stderr, "Failed to get diff: ") /\ Repo = last.pre

\* git refuses the add: the base names a branch that only origin has
C22_Witness ==
    /\ last.op = "create"
    /\ last.base = "dev"
    /\ last.env = GitWorks
    /\ last.exc = "WorkspaceError"
    /\ last.msg = "Failed to create worktree: fatal: invalid reference: dev"
    /\ last.ret = None

(***************************************************************************)
(* get_workspace_status (operations/workspace_ops.py): the cleanliness of  *)
(* the workspace, then `git -C <path> rev-list --left-right --count        *)
(* origin/<branch>...HEAD`, whose output "<behind>\t<ahead>" is split and  *)
(* converted with int().                                                   *)
(***************************************************************************)
WhitespaceChars == {" ", "\t", "\n", "\r", "\f"}

RECURSIVE DropUntilIn(_, _)
DropUntilIn(s, cls) ==
    IF s = "" THEN ""
    ELSE IF Head(s) \in cls THEN s
    ELSE DropUntilIn(Tail(s), cls)

\* s.strip().split(): the maximal runs of non-whitespace characters
RECURSIVE SplitWhitespace(_)
SplitWhitespace(s) ==
    LET t == DropWhileIn(s, WhitespaceChars)
        rest == DropUntilIn(t, WhitespaceChars)
    IN  IF t = "" THEN <<>>
        ELSE <<SubSeq(t, 1, Len(t) - Len(rest))>> \o SplitWhitespace(rest)

DigitChars == {"0", "1", "2", "3", "4", "5", "6", "7", "8", "9"}

\* int() raises ValueError for the token
IntRaises(tok) == tok = "" \/ \E i \in 1..Len(tok) : SubSeq(tok, i, i) \notin DigitChars

DigitValue(c) == CHOOSE d \in 0..9 : SubSeq(Digits, d + 1, d + 1) = c

\* int(tok) for a token of decimal digits
RECURSIVE IntOf(_)
IntOf(tok) ==
    IF tok = "" THEN 0
    ELSE 10 * IntOf(SubSeq(tok, 1, Len(tok) - 1)) + DigitValue(SubSeq(tok, Len(tok), Len(tok)))

\* ahead_behind = None
NoAheadBehind == [ahead |-> -1, behind |-> -1]

\* What the rev-list call may meet besides git's own answer: the stdout of a
\* git that exits 0 in a repository whose origin has moved on, or output
\* that is not two numbers
RevListAnswers == {"git", "2\t1\n", "0\t3\n", "", "7\n", "x y\n", "1 2 3\n"}

\* The rev-list call: origin/<branch> must be a ref of origin and the
\* directory must be there, else git exits 128; origin's branches stand at
\* the initial commit
GitRevListCount(st, path, branch, answer) ==
    LET i == WorktreeIndexAt(st, path)
    IN  IF path \notin st.dirs \/ i = 0 \/ branch \notin OriginRefs
        THEN [returncode |-> 128, stdout |-> ""]
        ELSE IF answer # "git" THEN [returncode |-> 0, stdout |-> answer]
        ELSE [returncode |-> 0,
              stdout |-> IF st.worktrees[i].head = InitialCommit THEN "0\t0\n"
                         ELSE "0\t1\n"]

\* The body of the try of get_workspace_status; `except Exception: pass`
\* leaves ahead_behind None when int() raises
AheadBehind(result) ==
    LET parts == SplitWhitespace(result.stdout)
    IN  IF result.returncode # 0 \/ Len(parts) # 2 THEN NoAheadBehind
        ELSE IF IntRaises(parts[1]) \/ IntRaises(parts[2]) THEN NoAheadBehind
        ELSE [ahead |-> IntOf(parts[2]), behind |-> IntOf(parts[1])]

\* WorkspaceManager.get_workspace_status
get_workspace_status(st, workspace, answer) ==
    IF ~RepoOpens(st, workspace.path)
    THEN \* `is_clean, status = workspace.is_clean` stands outside any try
         Raise("NoSuchPathError", workspace.path, st, <<>>)
    ELSE Return([path |-> workspace.path,
                 branch |-> workspace.branch,
                 commit |-> workspace.commit,
                 is_clean |-> is_clean(st, workspace)[1],
                 status |-> is_clean(st, workspace)[2],
                 ahead_behind |->
                     IF workspace.branch # None /\ workspace.branch # ""
                     THEN AheadBehind(GitRevListCount(st, workspace.path,
                                                      workspace.branch, answer))
                     ELSE NoAheadBehind],
                st, <<>>)

(***************************************************************************)
(* The status on its own: two workspaces (dev is a branch of origin,       *)
(* feat/x is not), the user editing, committing, detaching a HEAD or       *)
(* deleting the directory of a workspace, and get_workspace_status asked   *)
(* about a discovered workspace.                                           *)
(***************************************************************************)
GetWorkspaceStatus ==
    \E answer \in RevListAnswers :
      \E k \in 1..Len(discover_workspaces(Repo, TRUE)) :
        LET workspace == discover_workspaces(Repo, TRUE)[k]
        IN  Called("status", workspace.branch, answer, FALSE, GitWorks,
                   get_workspace_status(Repo, workspace, answer))

AheadBehindNext ==
    \/ GetWorkspaceStatus
    \/ Exit
    \/ UserEdit
    \/ UserCommitAll
    \/ UserDetach
    \/ UserRemoveDir

AheadBehindSpec == CleanInit /\ [][AheadBehindNext]_vars

(***************************************************************************)
(* C23.  get_workspace_status raises nothing.  Its ahead_behind is None    *)
(* when the workspace has no branch, when the rev-list call exits non-zero *)
(* (no origin/<branch>, or no directory to run in) and when its output is  *)
(* not two numbers; when the output is two numbers, behind is the first    *)
(* and ahead is the second.                                                *)
(***************************************************************************)
C23_StatusNeverFails ==
    (last.op = "status")
    => LET \* the workspace asked about, and the rev-list call for the answer
           \* drawn (kept in last.base)
           w == last.pre.worktrees[WorktreeIndexAt(last.pre, last.ret.path)]
           result == GitRevListCount(last.pre, w.path, w.branch, last.base)
       IN  /\ last.exc = None
           /\ w.branch = None => last.ret.ahead_behind = NoAheadBehind
           /\ (w.branch # None /\ result.returncode # 0)
              => last.ret.ahead_behind = NoAheadBehind
           /\ (w.branch # None /\ result.returncode = 0
                 /\ result.stdout \in {"", "7\n", "x y\n", "1 2 3\n"})
              => last.ret.ahead_behind = NoAheadBehind
           /\ (w.branch # None /\ result.returncode = 0 /\ result.stdout = "2\t1\n")
              => last.ret.ahead_behind = [ahead |-> 1, behind |-> 2]
           /\ (w.branch # None /\ result.returncode = 0 /\ result.stdout = "0\t3\n")
              => last.ret.ahead_behind = [ahead |-> 3, behind |-> 0]
           /\ (w.branch # None /\ result.returncode = 0 /\ last.base = "git")
              => last.ret.ahead_behind
                   = [ahead |-> IF w.head = LaterCommit THEN 1 ELSE 0, behind |-> 0]

(***************************************************************************)
(* Creates and deletes on their own, some of the deletes meeting a parent   *)
(* directory that rmdir may not remove, with the user adding a file to a   *)
(* workspace or deleting its directory.                                    *)
(***************************************************************************)
\* delete_workspace where the rmdir of the parent directory is denied
DeleteWorkspaceRmdirDenied ==
    \E branch \in BranchNames, force \in BOOLEAN :
      \E i \in CheckedOutAt(Repo, branch) :
        LET env == [listOk |-> TRUE, fail |-> {PathParent(worktrees[i].path)}]
        IN  Called("delete", branch, None, force, env,
                   delete_workspace(Repo, branch, force, env))

LifecycleNext ==
    \/ CreateWorkspace
    \/ DeleteWorkspace
    \/ DeleteWorkspaceRmdirDenied
    \/ Exit
    \/ UserNewFile
    \/ UserRemoveDir

LifecycleSpec == Init /\ [][LifecycleNext]_vars

(***************************************************************************)
(* C24.  After a delete_workspace that returned, with path the path of the *)
(* removed worktree and parent its parent directory: when the rmdir is not *)
(* denied, parent is gone if and only if nothing is left in it, and it is  *)
(* still there while the directory of another worktree lies in it; when    *)
(* the rmdir is denied, the call returns True all the same and the         *)
(* worktree and its directory are gone; no other directory is touched.     *)
(***************************************************************************)
C24_EmptyParentRemoved ==
    (last.op = "delete" /\ Len(last.git) = 1
        /\ GitWorktreeRemove(last.pre, last.git[1].path, last.flag,
                             last.git[1].path \notin last.env.fail).ok)
    => LET path == last.git[1].path
           parent == PathParent(path)
           left == {d \in last.pre.dirs : IsUnder(d, parent) /\ d # path
                                           /\ ~IsUnder(d, path)}
           denied == parent \in last.env.fail
       IN  /\ last.exc = None
           /\ last.ret = TRUE
           /\ path \notin dirs
           /\ WorktreeIndexAt(Repo, path) = 0
           /\ ~denied => (parent \notin dirs <=> left = {})
           /\ denied => (parent \in dirs <=> parent \in last.pre.dirs)
           /\ (\E i \in 1..Len(worktrees) :
                  PathParent(worktrees[i].path) = parent /\ worktrees[i].path \in dirs)
              => parent \in dirs
           /\ \A d \in last.pre.dirs :
                 (d # parent /\ d # path /\ ~IsUnder(d, path)) => d \in dirs

\* Two workspaces, one deleted: the parent stays
C24_Witness ==
    /\ last.op = "delete"
    /\ last.exc = None
    /\ last.env = GitWorks
    /\ PathParent(last.git[1].path) = ManagedDir
    /\ ManagedDir \in dirs
    /\ \E i \in 2..Len(worktrees) : IsUnder(worktrees[i].path, ManagedDir)

(***************************************************************************)
(* C25.  No two worktrees share a path, in any reachable state.  And when  *)
(* a branch B1 other than B with sanitize(B1) = sanitize(B) is checked out *)
(* in its workspace (the worktree at the target path of B1, which is the   *)
(* target path of B, its directory on disk), create_workspace(B) raises    *)
(* WorkspaceExistsError, runs no git worktree add and leaves every         *)
(* worktree, the one of B1 included, every head and every directory as it  *)
(* was.                                                                    *)
(***************************************************************************)
C25_PathsUnique ==
    /\ \A i, j \in 1..Len(worktrees) : worktrees[i].path = worktrees[j].path => i = j
    /\ (last.op = "create"
          /\ \E B1 \in BranchNames \ {last.branch} :
                /\ sanitize_workspace_name(B1) = sanitize_workspace_name(last.branch)
                /\ \E i \in CheckedOutAt(last.pre, B1) :
                      /\ last.pre.worktrees[i].path
                            = ManagedDir \o "/" \o sanitize_workspace_name(B1)
                      /\ last.pre.worktrees[i].path \in last.pre.dirs)
       => /\ last.exc = "WorkspaceExistsError"
          /\ last.git = <<>>
          /\ Repo = last.pre

\* feat_x asked for while the workspace of feat/x stands at feat-x
C25_Witness ==
    /\ last.op = "create"
    /\ last.branch = "feat_x"
    /\ last.env = GitWorks
    /\ last.exc = "WorkspaceExistsError"
    /\ CheckedOutAt(Repo, "feat_x") = {}
    /\ \E i \in CheckedOutAt(Repo, "feat/x") :
          worktrees[i].path = "/home/u/.claude/workspaces/proj/feat-x"

(***************************************************************************)
(* The create command (cli/commands/workspace.py): create_workspace, then  *)
(* copy_claude_context into the new worktree.  The repository tracks its   *)
(* README.md only: CLAUDE.md and .claude/settings.local.json, where the    *)
(* repository root has them, are files the user keeps beside the tracked   *)
(* ones, and git reports such a file as untracked unless a line of         *)
(* .git/info/exclude (shared by all the worktrees) names it.               *)
(***************************************************************************)
\* $GIT_COMMON_DIR/info/exclude
ExcludeFile == RepoRoot \o "/.git/info/exclude"

\* What the exclude file may hold
ExcludeContents == {"", ".claude/settings.local.json\n",
                    "CLAUDE.md\n.claude/settings.local.json\n"}

\* git ignores the path: is_worktree_clean reads repo.untracked_files, which
\* leaves ignored files out
Ignored(fs_files, rel_path) ==
    ExcludeFile \in DOMAIN fs_files /\ Contains(fs_files[ExcludeFile], rel_path \o "\n")

\* The listed files of the repository root
RootContextPaths == {PathJoin(RepoRoot, files_to_copy[k]) : k \in 1..Len(files_to_copy)}

CommandInit ==
    /\ heads = [b \in BranchNames |-> IF b = "main" THEN InitialCommit ELSE None]
    /\ last = NoCall
    /\ porcelain = <<>>
    /\ \E present \in SUBSET RootContextPaths, exclude \in ExcludeContents :
          /\ files = [p \in present \cup {ExcludeFile} |->
                         IF p = ExcludeFile THEN exclude ELSE "v1"]
          /\ dirs = {RepoRoot} \cup {PathParent(p) : p \in present \cup {ExcludeFile}}
          /\ worktrees =
               << [MainWorktree EXCEPT !.untracked =
                      {files_to_copy[k] : k \in {j \in 1..Len(files_to_copy) :
                           /\ PathJoin(RepoRoot, files_to_copy[j]) \in present
                           /\ ~Contains(exclude, files_to_copy[j] \o "\n")}}] >>

\* The worktree at path with the copied files that git does not ignore
\* added to its untracked files
WithCopied(st, fs_files, path, copied) ==
    LET i == WorktreeIndexAt(st, path)
        seen == {copied[k] : k \in {j \in 1..Len(copied) : ~Ignored(fs_files, copied[j])}}
    IN  [st EXCEPT !.worktrees[i].untracked = @ \cup seen]

\* The create command: manager.create_workspace(branch, base_branch=base),
\* then copy_claude_context(workspace.path, workspace.repo_root)
CreateCommand ==
    \E branch \in BranchNames, base \in BaseChoices :
      \E env \in Envs({get_workspace_path(branch)}) :
        LET r == create_workspace(Repo, branch, base, env)
            c == copy_claude_context([files |-> files, dirs |-> r.st.dirs],
                                     r.ret.path, r.ret.repo_root)
            st == IF r.exc # None THEN r.st
                  ELSE WithCopied([r.st EXCEPT !.dirs = c.fs.dirs], files,
                                  r.ret.path, c.copied)
        IN  /\ last = NoCall
            /\ Len(st.worktrees) <= MaxWorktrees
            /\ worktrees' = st.worktrees
            /\ heads' = st.heads
            /\ dirs' = st.dirs
            /\ files' = IF r.exc # None THEN files ELSE c.fs.files
            /\ last' = [op |-> "create_command", branch |-> branch, base |-> base,
                        flag |-> FALSE, env |-> env, pre |-> Repo,
                        exc |-> r.exc, msg |-> r.msg, ret |-> r.ret, git |-> r.git]
            /\ UNCHANGED porcelain

CommandNext ==
    \/ CreateCommand
    \/ DeleteWorkspace
    \/ Exit

CommandSpec == CommandInit /\ [][CommandNext]_vars

(***************************************************************************)
(* C26.  After a create command that succeeded, the new workspace is       *)
(* clean: is_clean gives (True, "Clean"), and a delete_workspace(B,        *)
(* force=False) made next, git working, returns True and removes it.       *)
(***************************************************************************)
C26_CreateCommandLeavesClean ==
    (last.op = "create_command" /\ last.exc = None)
    => LET del == delete_workspace(Repo, last.branch, FALSE, GitWorks)
       IN  /\ is_clean(Repo, last.ret) = <<TRUE, "Clean">>
           /\ del.exc = None
           /\ del.ret = TRUE
           /\ CheckedOutAt(del.st, last.branch) = {}

(***************************************************************************)
(* C27.  delete_workspace and clean_workspaces remove managed, non-main    *)
(* workspaces only: the main worktree and every worktree outside           *)
(* <home>/.claude/workspaces that was there before the call is there after *)
(* it; and a delete_workspace(B) for a branch B checked out in the main    *)
(* worktree or in a worktree outside <home>/.claude/workspaces removes no  *)
(* worktree and no directory.                                              *)
(***************************************************************************)
C27_OnlyManagedRemoved ==
    LET outside(st, i) == i = 1 \/ ~IsUnder(st.worktrees[i].path,
                                            Home \o "/.claude/workspaces")
    IN  /\ (last.op \in {"delete", "clean"})
           => \A i \in 1..Len(last.pre.worktrees) :
                 outside(last.pre, i) => InSeq(last.pre.worktrees[i], worktrees)
        /\ (last.op = "delete"
              /\ \E i \in CheckedOutAt(last.pre, last.branch) : outside(last.pre, i))
           => /\ worktrees = last.pre.worktrees
              /\ dirs = last.pre.dirs

(***************************************************************************)
(* delete_workspace beside another process: the call is two steps, its     *)
(* lookup and cleanliness check, then its git worktree remove, and the     *)
(* user's editor may write into a workspace between the two.               *)
(***************************************************************************)
\* delete_workspace reaches its git command, or raises before it
DeleteBegin ==
    \E branch \in BranchNames, force \in BOOLEAN :
      \E env \in Envs({worktrees[i].path : i \in CheckedOutAt(Repo, branch)}) :
        LET checked == delete_workspace_check(Repo, branch, force, env)
        IN  /\ last = NoCall
            /\ last' = [op |-> IF checked.exc # None THEN "delete" ELSE "delete_checked",
                        branch |-> branch, base |-> None, flag |-> force,
                        env |-> env, pre |-> Repo,
                        exc |-> checked.exc, msg |-> checked.msg, ret |-> checked.ret,
                        git |-> <<>>]
            /\ UNCHANGED <<worktrees, heads, dirs, porcelain, files>>

\* Another process edits the tracked file of a workspace, or creates a file
\* in it, while the delete stands before its git command
EditMeanwhile ==
    \E i \in 2..Len(worktrees), untracked \in BOOLEAN :
        /\ last.op = "delete_checked"
        /\ worktrees[i].path \in dirs
        /\ IF untracked THEN NewFile \notin worktrees[i].untracked
           ELSE TrackedFile \notin worktrees[i].unstaged
        /\ worktrees' = IF untracked
                        THEN [worktrees EXCEPT ![i].untracked = @ \cup {NewFile}]
                        ELSE [worktrees EXCEPT ![i].unstaged = @ \cup {TrackedFile}]
        /\ UNCHANGED <<heads, dirs, last, porcelain, files>>

\* delete_workspace runs git worktree remove and returns or raises
DeleteFinish ==
    LET r == delete_workspace_remove(Repo, last.ret, last.branch, last.flag, last.env)
    IN  /\ last.op = "delete_checked"
        /\ worktrees' = r.st.worktrees
        /\ heads' = r.st.heads
        /\ dirs' = r.st.dirs
        /\ files' = FilesLeft(files, dirs, r.st.dirs)
        /\ last' = [last EXCEPT !.op = "delete", !.exc = r.exc, !.msg = r.msg,
                                !.ret = r.ret, !.git = r.git]
        /\ UNCHANGED porcelain

RaceNext ==
    \/ DeleteBegin
    \/ EditMeanwhile
    \/ DeleteFinish
    \/ Exit
    \/ UserEdit
    \/ UserDiscard

RaceSpec == CleanInit /\ [][RaceNext]_vars

(***************************************************************************)
(* C28.  In every step in which a delete_workspace without force runs its  *)
(* git worktree remove while the workspace of its branch has a change (one *)
(* that landed after the cleanliness check, which a dirty workspace does   *)
(* not pass): the call raises WorkspaceError, and the worktree, its        *)
(* change and every directory are as they were.                            *)
(***************************************************************************)
C28_EditBeforeRemoveKept ==
    [][ (last.op = "delete_checked" /\ last'.op = "delete" /\ ~last.flag
           /\ DirtyWorkspace(Repo, last.branch))
        => /\ ~DirtyWorkspace(last.pre, last.branch)
           /\ last'.exc = "WorkspaceError"
           /\ last'.ret = None
           /\ worktrees' = worktrees
           /\ dirs' = dirs
           /\ DirtyWorkspace(Repo', last.branch)
      ]_vars

\* The edit landed between the check and git's refusal
C28_Witness ==
    /\ last.op = "delete"
    /\ ~last.flag
    /\ last.env = GitWorks
    /\ Len(last.git) = 1
    /\ last.exc = "WorkspaceError"
    /\ ~DirtyWorkspace(last.pre, last.branch)
    /\ DirtyWorkspace(Repo, last.branch)

(***************************************************************************)
(* C29.  A delete_workspace(B) that returned removed the worktree of B and *)
(* nothing else: the worktrees left are those of before without it, in     *)
(* the same order and with the same branch, commit and files; discovery    *)
(* gives for each of them the path, branch, commit and is_main it gave     *)
(* before, the main worktree at index 0; and every local branch, B         *)
(* included, has the head it had.                                          *)
(***************************************************************************)
C29_DeleteRemovesOnlyB ==
    (last.op = "delete" /\ last.exc = None)
    => LET before == discover_workspaces(last.pre, TRUE)
           after == discover_workspaces(Repo, TRUE)
       IN  /\ Cardinality(CheckedOutAt(last.pre, last.branch)) = 1
           /\ worktrees = SelectSeq(last.pre.worktrees,
                                    LAMBDA w : w.branch # last.branch)
           /\ Len(worktrees) = Len(last.pre.worktrees) - 1
           /\ after = SelectSeq(before, LAMBDA w : w.branch # last.branch)
           /\ after[1].is_main
           /\ after[1] = before[1]
           /\ heads = last.pre.heads
           /\ heads[last.branch] # None

\* One of two workspaces deleted, the other one kept
C29_Witness ==
    /\ last.op = "delete"
    /\ last.exc = None
    /\ Len(last.pre.worktrees) = 3
    /\ Len(worktrees) = 2
    /\ last.pre.worktrees[2].branch = last.branch
    /\ worktrees[2] = last.pre.worktrees[3]

(***************************************************************************)
(* Cleaning with detached HEADs: two workspaces, the user detaching the    *)
(* HEAD of a worktree or editing in a workspace, and clean_workspaces.     *)
(***************************************************************************)
DetachedNext ==
    \/ CleanWorkspaces
    \/ Exit
    \/ UserDetach
    \/ UserEdit

DetachedSpec == CleanInit /\ [][DetachedNext]_vars

(***************************************************************************)
(* C30.  clean_workspaces, with check_merged true or false, removes no     *)
(* worktree whose HEAD is detached: each is there after the call as it was *)
(* before, with its directory; and the list returned holds branch names    *)
(* only, never None.                                                       *)
(***************************************************************************)
C30_DetachedNeverCleaned ==
    (last.op = "clean")
    => /\ \A i \in 1..Len(last.pre.worktrees) :
             LET w == last.pre.worktrees[i]
             IN  w.branch = None
                 => /\ InSeq(w, worktrees)
                    /\ w.path \in dirs
                    /\ \A k \in 1..Len(last.git) : last.git[k].path # w.path
       /\ last.exc = None
          => \A k \in 1..Len(last.ret) : last.ret[k] \in BranchNames

\* A detached clean workspace stays while the other one is removed
C30_Witness ==
    /\ last.op = "clean"
    /\ last.env = GitWorks
    /\ Len(last.ret) = 1
    /\ Len(worktrees) = 2
    /\ worktrees[2].branch = None
    /\ is_managed(worktrees[2])
    /\ ~WorktreeDirty(worktrees[2])

=============================================================================
